---- MODULE Spec2Model ----
(***************************************************************************)
(* Phone normalisation and the deduplicating collectors of the myhome      *)
(* scraping scripts: MegaAgentScraper, TurboOwnerScraper, MegaOwnerScraper *)
(* and MasterDeduplicator.                                                 *)
(*                                                                         *)
(* A Python string is a sequence of one-character strings; a Python set of *)
(* strings is a set of such sequences; a CSV file is the sequence of its   *)
(* data rows (the header row "Phone" is not part of the sequence).         *)
(***************************************************************************)
EXTENDS Integers, Sequences, FiniteSets, TLC

VARIABLES
    \* ---- normalisation of one raw string and of a re-spelling of it
    raw,                \* the raw phone string handed to a normaliser
    raw2,               \* a second spelling, handed to the same normaliser
    result,             \* what the normaliser returned for raw
    result2,            \* what the normaliser returned for raw2
    fn,                 \* which normaliser ran ("none" before it ran)
    \* ---- MegaOwnerScraper (scrape_owners_mega.py)
    mo_pc,              \* position in scrape_owners_mega
    mo_min_target,      \* the min_target argument
    mo_property_urls,   \* property URLs not yet iterated
    mo_owner_phones,    \* self.owner_phones
    mo_fed,             \* history: the raw phones scrape_property_phone returned
    mo_file,            \* owners_mega.csv
    mo_scraped_count,   \* scraped_count of scrape_owners_mega
    mo_snapshots,       \* history: calls of export_to_csv made inside the loop
    \* ---- MegaAgentScraper (mega_agent_scraper.py)
    ag_pc,              \* position in mega_agent_scrape
    ag_run,             \* which run of the script this is: "A", then "B"
    ag_target_phones,   \* self.target_phones
    ag_agent_phones,    \* self.agent_phones
    ag_processed_agents,\* self.processed_agents
    ag_page,            \* page of discover_all_agents_mega to fetch next
    ag_agent_ids,       \* agent_ids: discovered agent ids
    ag_todo,            \* agent ids the for loop has not reached yet
    ag_agent_id,        \* the agent id of the iteration under way (0: none)
    ag_left,            \* records of all_agents the inner loop has not reached yet
    ag_new_phones_found,\* new_phones_found
    ag_final_count,     \* the value mega_agent_scrape returns (-1 before)
    ag_success,         \* "YES" / "PARTIAL" as reported, "" before
    ag_agents_csv,      \* the file agents.csv
    ag_mega_agents_csv, \* the file mega_agents.csv
    ag_hist,            \* history of the run, read by the properties only
    \* ---- TurboOwnerScraper (turbo_owner_scraper.py)
    tu_pc,              \* position in turbo_scrape
    tu_target_phones,   \* self.target_phones
    tu_owner_phones,    \* self.owner_phones
    tu_processed_urls,  \* self.processed_urls
    tu_endpoint,        \* index into api_endpoints of get_property_urls_fast
    tu_page,            \* page to fetch next from that endpoint
    tu_all_urls,        \* all_urls, then property_urls: a list
    tu_i,               \* number of property_urls the for loop has taken
    tu_new_phones_found,\* new_phones_found
    tu_final_count,     \* the value turbo_scrape returns (-1 before)
    tu_existing_files,  \* agents.csv, owners_direct.csv, master_phones_only.csv
    tu_owners_xlsx,     \* the file owners.xlsx
    tu_fetched,         \* history: how often each property page was fetched
    \* ---- DirectOwnersPhoneScraper (scrape_owners_direct.py)
    do_pc,              \* position in main / scrape_owners
    do_min_target,      \* the min_target argument
    do_len,             \* len(property_urls)
    do_i,               \* number of property_urls the for loop has taken
    do_owner_phones,    \* self.owner_phones
    do_owners_count,    \* the value scrape_owners returns (-1 before)
    do_file,            \* owners_direct.csv
    do_hist,            \* history of the run, read by the properties only
    \* ---- MyHomeScraper and its DataStorage (main.py, scraper/data_storage.py)
    mh_pc,              \* position of the main thread in MyHomeScraper.run
    mh_use_api,         \* self.use_api
    mh_agents_pc,       \* position of agents_thread
    mh_owners_pc,       \* position of owners_thread
    mh_agents_page,     \* page of scrape_agents
    mh_agents_todo,     \* agents of the page not yet handled
    mh_total_agents_found,
    mh_owners_page,     \* page of scrape_properties
    mh_owners_todo,     \* properties of the page not yet handled
    mh_property_url,    \* the property the owners thread is working on
    mh_total_owners_found,
    mh_agents_data,     \* self.data_storage.agents_data
    mh_owners_data,     \* self.data_storage.owners_data
    mh_owner_phones,    \* self.data_storage.owner_phones
    mh_driver_page,     \* the page self.selenium_handler.driver shows
    mh_agents_csv,      \* agents.csv
    mh_owners_csv,      \* owners.csv
    mh_writers,         \* history: which thread has written which object
    \* ---- mega_agents.csv as the processes see it (mega_agent_scraper.py,
    \*      mega_monitor.py)
    fw_pc,              \* position of the scraper process
    fw_agent_phones,    \* self.agent_phones
    fw_new_phones_found,
    fw_final,           \* the export under way is the final one
    fw_file,            \* mega_agents.csv on disk
    fw_pending,         \* rows written to csvfile that are not on disk yet
    fw_last_snapshot,   \* history: the rows of the last export that completed
    fw_monitor_count,   \* the last count the monitor took (-1: none yet)
    \* ---- EnhancedAgentScraper.extract_phone_from_agent_enhanced
    \*      (mega_agent_scraper_enhanced.py)
    en_agent,           \* the record: its fields and its contact_info
    en_agent_phones,    \* self.agent_phones
    en_phone,           \* the value returned ("unset" before the call)
    \* ---- MasterDeduplicator (master_deduplicator.py)
    dd_pc,              \* position in main
    dd_files,           \* the source files, by position in csv_sources
    dd_i,               \* sources handled so far
    dd_unique_phones,   \* self.unique_phones
    dd_phone_sources,   \* self.phone_sources
    dd_added,           \* what add_phones_from_csv returned, per source
    dd_master_unique_csv,   \* master_phones_unique.csv: rows <<Phone, Source>>
    dd_master_only_csv  \* master_phones_only.csv

normVars == <<raw, raw2, result, result2, fn>>
moVars   == <<mo_pc, mo_min_target, mo_property_urls, mo_owner_phones, mo_fed, mo_file,
              mo_scraped_count, mo_snapshots>>
agVars   == <<ag_pc, ag_run, ag_target_phones, ag_agent_phones, ag_processed_agents,
              ag_page, ag_agent_ids, ag_todo, ag_agent_id, ag_left, ag_new_phones_found,
              ag_final_count, ag_success, ag_agents_csv, ag_mega_agents_csv, ag_hist>>
tuVars   == <<tu_pc, tu_target_phones, tu_owner_phones, tu_processed_urls, tu_endpoint,
              tu_page, tu_all_urls, tu_i, tu_new_phones_found, tu_final_count,
              tu_existing_files, tu_owners_xlsx, tu_fetched>>
doVars   == <<do_pc, do_min_target, do_len, do_i, do_owner_phones, do_owners_count,
              do_file, do_hist>>
mhVars   == <<mh_pc, mh_use_api, mh_agents_pc, mh_owners_pc, mh_agents_page, mh_agents_todo,
              mh_total_agents_found, mh_owners_page, mh_owners_todo, mh_property_url,
              mh_total_owners_found, mh_agents_data, mh_owners_data, mh_owner_phones,
              mh_driver_page, mh_agents_csv, mh_owners_csv, mh_writers>>
fwVars   == <<fw_pc, fw_agent_phones, fw_new_phones_found, fw_final, fw_file, fw_pending,
              fw_last_snapshot, fw_monitor_count>>
enVars   == <<en_agent, en_agent_phones, en_phone>>
ddVars   == <<dd_pc, dd_files, dd_i, dd_unique_phones, dd_phone_sources, dd_added,
              dd_master_unique_csv, dd_master_only_csv>>
vars     == <<normVars, moVars, agVars, tuVars, doVars, mhVars, fwVars, enVars, ddVars>>

\* what the steps of one component leave alone
notNorm == <<moVars, agVars, tuVars, doVars, mhVars, fwVars, enVars, ddVars>>
notMo   == <<normVars, agVars, tuVars, doVars, mhVars, fwVars, enVars, ddVars>>
notAg   == <<normVars, moVars, tuVars, doVars, mhVars, fwVars, enVars, ddVars>>
notTu   == <<normVars, moVars, agVars, doVars, mhVars, fwVars, enVars, ddVars>>
notDo   == <<normVars, moVars, agVars, tuVars, mhVars, fwVars, enVars, ddVars>>
notMh   == <<normVars, moVars, agVars, tuVars, doVars, fwVars, enVars, ddVars>>
notFw   == <<normVars, moVars, agVars, tuVars, doVars, mhVars, enVars, ddVars>>
notEn   == <<normVars, moVars, agVars, tuVars, doVars, mhVars, fwVars, ddVars>>
notDd   == <<normVars, moVars, agVars, tuVars, doVars, mhVars, fwVars, enVars>>

(***************************************************************************)
(* Bounds of the model.                                                    *)
(***************************************************************************)
MaxLead == 4        \* leading digits of a generated digit string
MaxTail == 8        \* trailing digits of a generated digit string
MaxUrls == 3        \* property URLs the site can list
MaxMatches == 2     \* regex matches taken from one fetched page
MaxTarget == 2      \* largest target count a run is started with
MoSnapshotEvery == 2    \* scrape_owners_mega saves every 50 phones; scaled down
MoMaxTarget == 3    \* largest min_target of scrape_owners_mega (1000), above the save interval
MaxAgents == 2      \* agent ids the site can list
AgMaxPages == 2     \* max_pages of discover_all_agents_mega (500), scaled down
AgSnapshotEvery == 2    \* mega_agent_scrape saves every 200 new phones; scaled down
MaxRecords == 2     \* records the answers for one agent hold (main agent, sub-agents)
TuMaxPages == 2     \* pages per endpoint in get_property_urls_fast (99), scaled down
TuMaxItems == 1     \* statements one listing page holds
TuMaxUrlList == 3   \* max_urls passed to get_property_urls_fast (20000), scaled down
TuSnapshotEvery == 2    \* turbo_scrape saves every 100 new phones; scaled down
DoMaxUrls == 3      \* property URLs get_property_urls returns (up to 5000), scaled down
DoMaxTarget == 3    \* largest min_target of scrape_owners (700), above the save interval
DoSnapshotEvery == 2    \* scrape_owners saves when the size is a multiple of 5; scaled down
MhTarget == 2       \* target_count of scrape_agents and scrape_properties (900), scaled down
MhMaxPages == 2     \* max_pages of scrape_agents (109) and scrape_properties (50), scaled down
MhMaxPerPage == 2   \* agents or properties one listing page returns, scaled down
DdMaxSources == 2   \* entries of csv_sources the merge handles (7), scaled down

(***************************************************************************)
(* Characters and string helpers.                                          *)
(***************************************************************************)
Digits == {"0", "1", "2", "3", "4", "5", "6", "7", "8", "9"}

DigitChar == <<"1", "2", "3", "4", "5", "6", "7", "8", "9", "0">>

\* Python's None where a string is expected
None == <<"None">>

\* a file: absent (open() for reading raises), or its data rows
NoFile == [exists |-> FALSE, rows |-> <<>>]
FileOf(rows) == [exists |-> TRUE, rows |-> rows]

\* str.startswith(prefix)
startswith(s, prefix) ==
    /\ Len(s) >= Len(prefix)
    /\ SubSeq(s, 1, Len(prefix)) = prefix

\* s[-n:]  (n >= 1)
LastN(s, n) == IF Len(s) <= n THEN s ELSE SubSeq(s, Len(s) - n + 1, Len(s))

\* re.sub(r'\D', '', s) and re.sub(r'[^\d]', '', s)
StripNonDigits(s) == SelectSeq(s, LAMBDA c : c \in Digits)

\* re.sub(r'[^\d+]', '', s)
StripNonDigitsPlus(s) == SelectSeq(s, LAMBDA c : c \in Digits \cup {"+"})

\* str.strip(): leading and trailing blanks removed
RECURSIVE lstrip(_)
lstrip(s) == IF s # <<>> /\ Head(s) = " " THEN lstrip(Tail(s)) ELSE s

RECURSIVE rstrip(_)
rstrip(s) == IF s # <<>> /\ s[Len(s)] = " " THEN rstrip(SubSeq(s, 1, Len(s) - 1)) ELSE s

strip(s) == rstrip(lstrip(s))

Plus995 == <<"+", "9", "9", "5">>

Range(f) == {f[i] : i \in DOMAIN f}

\* ord(c) for the characters that occur
Ord(c) ==
    CASE c = " " -> 32 [] c = "+" -> 43 [] c = "-" -> 45
      [] c = "0" -> 48 [] c = "1" -> 49 [] c = "2" -> 50 [] c = "3" -> 51
      [] c = "4" -> 52 [] c = "5" -> 53 [] c = "6" -> 54 [] c = "7" -> 55
      [] c = "8" -> 56 [] c = "9" -> 57 [] c = ":" -> 58
      [] c = "a" -> 97 [] c = "b" -> 98 [] c = "d" -> 100
      [] c = "e" -> 101 [] c = "l" -> 108 [] c = "t" -> 116

\* a < b for Python strings
RECURSIVE StrLess(_, _)
StrLess(a, b) ==
    IF b = <<>> THEN FALSE
    ELSE IF a = <<>> THEN TRUE
    ELSE IF Head(a) = Head(b) THEN StrLess(Tail(a), Tail(b))
    ELSE Ord(Head(a)) < Ord(Head(b))

\* sorted(S) for a set of strings
RECURSIVE sorted(_)
sorted(S) ==
    IF S = {} THEN <<>>
    ELSE LET m == CHOOSE x \in S : \A y \in S \ {x} : StrLess(x, y)
         IN <<m>> \o sorted(S \ {m})

(***************************************************************************)
(* The normalisers.  normalize_phone is written four times in the source;  *)
(* each copy is translated from its own text.  "" is the empty sequence.   *)
(***************************************************************************)

\* A normaliser that forgets to strip punctuation before testing the shape.
MegaAgent_normalize_phone_nostrip(phone) ==
    IF phone = <<>> THEN <<>>
    ELSE IF Len(phone) = 9 /\ startswith(phone, <<"5">>) THEN Plus995 \o phone
    ELSE IF Len(phone) = 12 /\ startswith(phone, <<"9", "9", "5">>) THEN <<"+">> \o phone
    ELSE IF Len(phone) >= 9 THEN Plus995 \o LastN(phone, 9)
    ELSE <<>>

\* MegaAgentScraper.normalize_phone
MegaAgent_normalize_phone(phone) ==
    IF phone = <<>> THEN <<>>
    ELSE LET digits == StripNonDigits(phone) IN
         IF Len(digits) = 9 /\ startswith(digits, <<"5">>) THEN Plus995 \o digits
         ELSE IF Len(digits) = 12 /\ startswith(digits, <<"9", "9", "5">>) THEN <<"+">> \o digits
         ELSE IF Len(digits) >= 9 THEN Plus995 \o LastN(digits, 9)
         ELSE <<>>

\* TurboOwnerScraper.normalize_phone
Turbo_normalize_phone(phone) ==
    IF phone = <<>> THEN <<>>
    ELSE LET digits == StripNonDigits(phone) IN
         IF Len(digits) = 9 /\ startswith(digits, <<"5">>) THEN Plus995 \o digits
         ELSE IF Len(digits) = 12 /\ startswith(digits, <<"9", "9", "5">>) THEN <<"+">> \o digits
         ELSE IF Len(digits) >= 9 THEN Plus995 \o LastN(digits, 9)
         ELSE <<>>

\* mega_monitor.normalize_phone
Monitor_normalize_phone(phone) ==
    IF phone = <<>> THEN <<>>
    ELSE LET digits == StripNonDigits(phone) IN
         IF Len(digits) = 9 /\ startswith(digits, <<"5">>) THEN Plus995 \o digits
         ELSE IF Len(digits) = 12 /\ startswith(digits, <<"9", "9", "5">>) THEN <<"+">> \o digits
         ELSE IF Len(digits) >= 9 THEN Plus995 \o LastN(digits, 9)
         ELSE <<>>

\* MasterDeduplicator.normalize_phone: the last branch returns the input
Dedup_normalize_phone(phone) ==
    IF phone = <<>> THEN <<>>
    ELSE LET digits == StripNonDigits(phone) IN
         IF Len(digits) = 9 /\ startswith(digits, <<"5">>) THEN Plus995 \o digits
         ELSE IF Len(digits) = 12 /\ startswith(digits, <<"9", "9", "5">>) THEN <<"+">> \o digits
         ELSE IF Len(digits) >= 9 THEN Plus995 \o LastN(digits, 9)
         ELSE phone

(***************************************************************************)
(* Raw inputs of the normalisers: a digit string (a lead over {5, 9}       *)
(* followed by a run 1 2 3 ...) in one of several spellings.               *)
(***************************************************************************)
LeadDigits == {"5", "9"}

Leads == UNION {[1..n -> LeadDigits] : n \in 0..MaxLead}

TailOf(k) == [i \in 1..k |-> DigitChar[((i - 1) % 10) + 1]]

DigitStrings == {l \o TailOf(k) : l \in Leads, k \in 0..MaxTail}

\* digits in groups of three separated by sep: "555 123 456"
RECURSIVE Grouped(_, _)
Grouped(d, sep) ==
    IF Len(d) <= 3 THEN d
    ELSE SubSeq(d, 1, 3) \o <<sep>> \o Grouped(SubSeq(d, 4, Len(d)), sep)

Spellings == {"plain", "plus", "spaced", "dashed", "text", "intl"}

Spell(d, s) ==
    CASE s = "plain"  -> d
      [] s = "plus"   -> <<"+">> \o d
      [] s = "spaced" -> Grouped(d, " ")
      [] s = "dashed" -> Grouped(d, "-")
      [] s = "text"   -> <<"t", "e", "l", ":", " ">> \o d
      [] s = "intl"   -> <<"+", "9", "9", "5", " ">> \o d

InitNorm ==
    /\ \E d \in DigitStrings : \E s1, s2 \in Spellings :
          /\ raw = Spell(d, s1)
          /\ raw2 = Spell(d, s2)
    /\ result = None
    /\ result2 = None
    /\ fn = "none"

\* One call of a normaliser on each of the two raw strings.
ApplyMegaAgentNormalize ==
    /\ fn = "none"
    /\ fn' = "MegaAgentScraper"
    /\ result' = MegaAgent_normalize_phone(raw)
    /\ result2' = MegaAgent_normalize_phone(raw2)
    /\ UNCHANGED <<raw, raw2>>
    /\ UNCHANGED notNorm

ApplyTurboNormalize ==
    /\ fn = "none"
    /\ fn' = "TurboOwnerScraper"
    /\ result' = Turbo_normalize_phone(raw)
    /\ result2' = Turbo_normalize_phone(raw2)
    /\ UNCHANGED <<raw, raw2>>
    /\ UNCHANGED notNorm

ApplyMonitorNormalize ==
    /\ fn = "none"
    /\ fn' = "mega_monitor"
    /\ result' = Monitor_normalize_phone(raw)
    /\ result2' = Monitor_normalize_phone(raw2)
    /\ UNCHANGED <<raw, raw2>>
    /\ UNCHANGED notNorm

ApplyDedupNormalize ==
    /\ fn = "none"
    /\ fn' = "MasterDeduplicator"
    /\ result' = Dedup_normalize_phone(raw)
    /\ result2' = Dedup_normalize_phone(raw2)
    /\ UNCHANGED <<raw, raw2>>
    /\ UNCHANGED notNorm

(***************************************************************************)
(* MegaOwnerScraper (scrape_owners_mega.py).                               *)
(***************************************************************************)
Urls == 1..MaxUrls

\* Subscriber numbers that occur on the modelled pages.
Subscribers == { <<"5", "5", "5", "1", "2", "3", "4", "5", "6">>,
                 <<"5", "1", "1", "2", "3", "4", "5", "6", "7">> }

\* What the phone patterns of scrape_property_phone can match for a subscriber
\* number d: "+995 ddd ddd ddd" (patterns 1, 2), "995ddddddddd" (pattern 3),
\* "ddddddddd" (patterns 4, 5).
MatchesOf(d) == { <<"+", "9", "9", "5", " ">> \o Grouped(d, " "),
                  <<"9", "9", "5">> \o d,
                  d }

PageMatches == UNION {MatchesOf(d) : d \in Subscribers}

\* A fetched page as the list of its regex matches, in pattern order; None
\* when fetch_page failed.
Responses == {None} \cup UNION {[1..n -> PageMatches] : n \in 0..MaxMatches}

\* MegaOwnerScraper.scrape_property_phone: the first match with at least 9
\* characters left after cleaning, uncanonicalised; None otherwise.
RECURSIVE Mo_first_clean(_)
Mo_first_clean(matches) ==
    IF matches = <<>> THEN None
    ELSE LET clean_phone == StripNonDigitsPlus(Head(matches)) IN
         IF Len(clean_phone) >= 9 THEN clean_phone
         ELSE Mo_first_clean(Tail(matches))

Mo_scrape_property_phone(response) ==
    IF response = None THEN None ELSE Mo_first_clean(response)

\* one row of MegaOwnerScraper.export_to_csv
Mo_format_row(phone) ==
    LET formatted_phone == IF startswith(phone, Plus995) THEN phone ELSE Plus995 \o phone
    IN IF Len(formatted_phone) >= 13
       THEN SubSeq(formatted_phone, 1, 4) \o <<" ">> \o SubSeq(formatted_phone, 5, 7)
            \o <<" ">> \o SubSeq(formatted_phone, 8, 10)
            \o <<" ">> \o SubSeq(formatted_phone, 11, Len(formatted_phone))
       ELSE formatted_phone

\* MegaOwnerScraper.export_to_csv: the file is rewritten with the sorted
\* phones; when open() raises the file stays as it was.
Mo_export_to_csv(phones, file, ok) ==
    IF ok
    THEN LET sorted_phones == sorted(phones)
         IN FileOf([i \in 1..Len(sorted_phones) |-> Mo_format_row(sorted_phones[i])])
    ELSE file

InitMo ==
    /\ mo_pc = "start"
    /\ mo_min_target \in 1..MoMaxTarget
    /\ mo_property_urls = {}
    /\ mo_owner_phones = {}
    /\ mo_fed = <<>>
    /\ mo_file = NoFile
    /\ mo_scraped_count = 0
    /\ mo_snapshots = 0

\* Step 1: discover_all_property_urls returns whatever set of URLs the
\* site lists.
MoDiscover ==
    /\ mo_pc = "start"
    /\ \E found \in SUBSET Urls :
          /\ mo_property_urls' = found
          /\ mo_pc' = IF found = {} THEN "final" ELSE "loop"
    /\ UNCHANGED <<mo_min_target, mo_owner_phones, mo_fed, mo_file, mo_scraped_count,
                   mo_snapshots>>
    /\ UNCHANGED notMo

\* One iteration of the loop of scrape_owners_mega.
MoIterate ==
    /\ mo_pc = "loop"
    /\ \E property_url \in mo_property_urls, response \in Responses, ok \in BOOLEAN :
          LET phone  == Mo_scrape_property_phone(response)
              phones == IF phone = None THEN mo_owner_phones
                        ELSE mo_owner_phones \cup {phone}
              rest   == mo_property_urls \ {property_url}
              snap   == phone # None /\ Cardinality(phones) % MoSnapshotEvery = 0
              break  == phone # None /\ Cardinality(phones) >= mo_min_target
          IN /\ mo_owner_phones' = phones
             /\ mo_fed' = IF phone = None THEN mo_fed ELSE Append(mo_fed, phone)
             /\ mo_scraped_count' = IF phone = None THEN mo_scraped_count
                                     ELSE mo_scraped_count + 1
             /\ mo_file' = IF snap THEN Mo_export_to_csv(phones, mo_file, ok) ELSE mo_file
             /\ mo_snapshots' = IF snap THEN mo_snapshots + 1 ELSE mo_snapshots
             /\ mo_property_urls' = rest
             /\ mo_pc' = IF break \/ rest = {} THEN "final" ELSE "loop"
    /\ UNCHANGED mo_min_target
    /\ UNCHANGED notMo

\* Final export and return.
MoFinalExport ==
    /\ mo_pc = "final"
    /\ \E ok \in BOOLEAN : mo_file' = Mo_export_to_csv(mo_owner_phones, mo_file, ok)
    /\ mo_pc' = "done"
    /\ UNCHANGED <<mo_min_target, mo_property_urls, mo_owner_phones, mo_fed,
                   mo_scraped_count, mo_snapshots>>
    /\ UNCHANGED notMo

(***************************************************************************)
(* MyHomeParser: the phone checks applied to every API record.             *)
(***************************************************************************)

\* MyHomeParser._is_valid_phone
Parser_is_valid_phone(phone) ==
    LET digits == StripNonDigits(phone) IN
    \/ Len(digits) = 9 /\ startswith(digits, <<"5">>)
    \/ Len(digits) = 12 /\ startswith(digits, <<"9", "9", "5">>)

\* A cleaner without the country-code branch: a 12-digit spelling is returned
\* as received.
Parser_clean_phone_nocode(phone) ==
    LET digits == StripNonDigits(phone) IN
    IF Len(digits) = 9 THEN Plus995 \o digits
    ELSE phone

\* MyHomeParser._clean_phone
Parser_clean_phone(phone) ==
    LET digits == StripNonDigits(phone) IN
    IF Len(digits) = 12 /\ startswith(digits, <<"9", "9", "5">>) THEN <<"+">> \o digits
    ELSE IF Len(digits) = 9 THEN Plus995 \o digits
    ELSE phone

\* Python's None where a parsed agent is expected
NoAgent == [none |-> TRUE]

\* MyHomeParser._extract_agent_from_api / _extract_sub_agent_from_api on one
\* raw record [name, phone_number]: the parsed agent, or None.
Parser_extract_agent_from_api(agent_data) ==
    IF agent_data.name = <<>> \/ agent_data.phone_number = <<>> THEN NoAgent
    ELSE LET phone == Parser_clean_phone(agent_data.phone_number) IN
         IF ~Parser_is_valid_phone(phone) THEN NoAgent
         ELSE [phone |-> phone]

\* MyHomeParser.parse_agents_api_response / parse_sub_agents_api_response:
\* the records that parse, in order.
RECURSIVE Parser_parse_agents_api_response(_)
Parser_parse_agents_api_response(agent_list) ==
    IF agent_list = <<>> THEN <<>>
    ELSE LET agent_info == Parser_extract_agent_from_api(Head(agent_list))
             rest       == Parser_parse_agents_api_response(Tail(agent_list))
         IN IF agent_info = NoAgent THEN rest ELSE <<agent_info>> \o rest

\* MyHomeParser.parse_property_phone_api_response on {"result": ..., "data":
\* {"phone_number": ...}}: the phone returned, or None.
Parser_parse_property_phone_api_response(api_data) ==
    IF ~api_data.result \/ "phone_number" \notin DOMAIN api_data.data THEN None
    ELSE LET phone == Parser_clean_phone(api_data.data["phone_number"]) IN
         IF Parser_is_valid_phone(phone) THEN phone ELSE None

\* Python's True and False as results
PyBool(b) == IF b THEN <<"True">> ELSE <<"False">>

\* One call of a parser function on each of the two raw strings.
ApplyParserIsValid ==
    /\ fn = "none"
    /\ fn' = "_is_valid_phone"
    /\ result' = PyBool(Parser_is_valid_phone(raw))
    /\ result2' = PyBool(Parser_is_valid_phone(raw2))
    /\ UNCHANGED <<raw, raw2>>
    /\ UNCHANGED notNorm

ApplyParserClean ==
    /\ fn = "none"
    /\ fn' = "_clean_phone"
    /\ result' = Parser_clean_phone(raw)
    /\ result2' = Parser_clean_phone(raw2)
    /\ UNCHANGED <<raw, raw2>>
    /\ UNCHANGED notNorm

\* _clean_phone on what _clean_phone returned
ApplyParserCleanAgain ==
    /\ fn = "_clean_phone"
    /\ fn' = "_clean_phone twice"
    /\ result' = Parser_clean_phone(result)
    /\ result2' = Parser_clean_phone(result2)
    /\ UNCHANGED <<raw, raw2>>
    /\ UNCHANGED notNorm

\* An agents API record whose phone_number is the raw string.
ApplyParserExtractAgent ==
    /\ fn = "none"
    /\ fn' = "_extract_agent_from_api"
    /\ LET parsed(r) == Parser_extract_agent_from_api([name |-> <<"n">>, phone_number |-> r])
           phone(r)  == IF parsed(r) = NoAgent THEN None ELSE parsed(r).phone
       IN /\ result' = phone(raw)
          /\ result2' = phone(raw2)
    /\ UNCHANGED <<raw, raw2>>
    /\ UNCHANGED notNorm

\* A property phone API response whose phone_number is the raw string.
ApplyParserPropertyPhone ==
    /\ fn = "none"
    /\ fn' = "parse_property_phone_api_response"
    /\ \E ok \in BOOLEAN, has \in BOOLEAN :
          LET data(r) == IF has THEN [k \in {"phone_number"} |-> r] ELSE <<>>
          IN /\ result' = Parser_parse_property_phone_api_response(
                              [result |-> ok, data |-> data(raw)])
             /\ result2' = Parser_parse_property_phone_api_response(
                               [result |-> ok, data |-> data(raw2)])
    /\ UNCHANGED <<raw, raw2>>
    /\ UNCHANGED notNorm

(***************************************************************************)
(* MegaAgentScraper (mega_agent_scraper.py).                               *)
(***************************************************************************)
AgentIds == 1..MaxAgents

\* Phones as the agents API spells them.
ApiPhones == { <<"5", "5", "5", "1", "2", "3", "4", "5", "6">>,
               <<"+", "9", "9", "5", " ", "5", "5", "5", " ", "1", "2", "3", " ", "4", "5", "6">>,
               <<"5", "1", "1", "2", "3", "4", "5", "6", "7">>,
               <<"3", "2", "2", "1", "2", "3", "4", "5", "6">>,
               <<"b", "a", "d">> }

\* Raw records of the agents API: a name and a phone_number.
ApiRecords == {[name |-> <<"a">>, phone_number |-> ph] : ph \in ApiPhones}
              \cup {[name |-> <<>>, phone_number |-> <<"5", "5", "5", "1", "2", "3", "4", "5", "6">>]}

\* Contents agents.csv can have when the first run starts (it is written by
\* other scripts of the repository).
InitialAgentsCsv ==
    { NoFile,
      FileOf(<<>>),
      FileOf(<< <<"+", "9", "9", "5", " ", "5", "5", "5", " ", "1", "2", "3", " ", "4", "5", "6">> >>),
      FileOf(<< <<"5", "1", "1", "2", "3", "4", "5", "6", "7">>, <<" ">>, <<"b", "a", "d">> >>) }

\* MegaAgentScraper.load_existing_agent_phones: the set after reading the
\* rows of agents.csv; a missing file raises and is logged.
RECURSIVE Ag_load_rows(_, _)
Ag_load_rows(agent_phones, rows) ==
    IF rows = <<>> THEN agent_phones
    ELSE LET phone      == strip(Head(rows))
             normalized == MegaAgent_normalize_phone(phone)
         IN Ag_load_rows(IF phone # <<>> /\ normalized # <<>>
                         THEN agent_phones \cup {normalized}
                         ELSE agent_phones,
                         Tail(rows))

Ag_load_existing_agent_phones(agent_phones, file) ==
    IF file.exists THEN Ag_load_rows(agent_phones, file.rows) ELSE agent_phones

\* phone_fields of extract_phone_from_agent, in priority order
phone_fields == <<"phone", "mobile", "telephone", "contact", "phoneNumber">>

\* MegaAgentScraper.extract_phone_from_agent: the first field whose value
\* normalises to a phone that is not in agent_phones yet; None otherwise.
RECURSIVE Ag_extract_from_fields(_, _, _)
Ag_extract_from_fields(agent, fields, agent_phones) ==
    IF fields = <<>> THEN None
    ELSE LET field == Head(fields) IN
         IF field \in DOMAIN agent /\ agent[field] # <<>>
         THEN LET normalized == MegaAgent_normalize_phone(strip(agent[field])) IN
              IF normalized # <<>> /\ normalized \notin agent_phones
              THEN normalized
              ELSE Ag_extract_from_fields(agent, Tail(fields), agent_phones)
         ELSE Ag_extract_from_fields(agent, Tail(fields), agent_phones)

Ag_extract_phone_from_agent(agent, agent_phones) ==
    Ag_extract_from_fields(agent, phone_fields, agent_phones)

\* one row of export_mega_agents_csv
Ag_format_row(phone) ==
    LET digits == StripNonDigits(phone) IN
    IF Len(digits) >= 12
    THEN <<"+", "9", "9", "5", " ">> \o SubSeq(digits, 4, 6) \o <<" ">>
         \o SubSeq(digits, 7, 9) \o <<" ">> \o SubSeq(digits, 10, 12)
    ELSE phone

\* MegaAgentScraper.export_mega_agents_csv: [file, count]; when open() raises
\* the file stays as it was and 0 is returned.
Ag_export_mega_agents_csv(agent_phones, file, ok) ==
    IF ok
    THEN LET sorted_phones == sorted(agent_phones)
         IN [file  |-> FileOf([i \in 1..Len(sorted_phones) |-> Ag_format_row(sorted_phones[i])]),
             count |-> Len(sorted_phones)]
    ELSE [file |-> file, count |-> 0]

\* An accept that overwrites the set instead of adding to it.
Ag_accept_overwrite(agent_phones, phone) == {phone}

\* lines 205-206: self.agent_phones.add(phone)
Ag_accept(agent_phones, phone) == agent_phones \cup {phone}

\* A bookkeeping slip: an agent is marked only when a new phone came of it.
Ag_mark_processed_if_found(processed_agents, agent_id, found_new) ==
    IF found_new THEN processed_agents \cup {agent_id} ELSE processed_agents

\* line 215: self.processed_agents.add(agent_id)
Ag_mark_processed(processed_agents, agent_id, found_new) ==
    processed_agents \cup {agent_id}

NoAgentId == 0

\* ended: agents whose iteration ended; missed: those of them that brought no
\* new phone; below_at_start: the preload left the set below the target;
\* found_new: the iteration under way accepted a phone; export_ok: the final
\* export wrote the file; prev_saved, prev_saved_ok: the set and export_ok of the previous run.
\* all_new: every record the source gave in this run was a new valid phone.
\* outcome: what the page fetch of the discovery step just taken brought.
NoHist == [ended |-> {}, missed |-> {}, below_at_start |-> FALSE,
           found_new |-> FALSE, all_new |-> TRUE, export_ok |-> FALSE, prev_saved |-> {},
           prev_saved_ok |-> FALSE, outcome |-> ""]

InitAg ==
    /\ ag_pc = "start"
    /\ ag_run = "A"
    /\ ag_target_phones \in 1..MaxTarget
    /\ ag_agent_phones = {}
    /\ ag_processed_agents = {}
    /\ ag_page = 1
    /\ ag_agent_ids = {}
    /\ ag_todo = {}
    /\ ag_agent_id = NoAgentId
    /\ ag_left = 0
    /\ ag_new_phones_found = 0
    /\ ag_final_count = -1
    /\ ag_success = ""
    /\ ag_agents_csv \in InitialAgentsCsv
    /\ ag_mega_agents_csv = NoFile
    /\ ag_hist = NoHist

\* mega_agent_scrape, lines 177-184: preload, and return at once when the
\* target is already met.
AgLoadExisting ==
    /\ ag_pc = "start"
    /\ LET loaded == Ag_load_existing_agent_phones(ag_agent_phones, ag_agents_csv)
           met    == Cardinality(loaded) >= ag_target_phones
       IN /\ ag_agent_phones' = loaded
          /\ ag_pc' = IF met THEN "done" ELSE "discover"
          /\ ag_final_count' = IF met THEN Cardinality(loaded) ELSE ag_final_count
          /\ ag_success' = IF met THEN "YES" ELSE ag_success
          /\ ag_hist' = [ag_hist EXCEPT !.below_at_start = ~met]
    /\ UNCHANGED <<ag_run, ag_target_phones, ag_processed_agents, ag_page, ag_agent_ids,
                   ag_todo, ag_agent_id, ag_left, ag_new_phones_found, ag_agents_csv,
                   ag_mega_agents_csv>>
    /\ UNCHANGED notAg

\* A page counter that starts over after the last page.
Ag_next_page_wrap(page) == IF page >= AgMaxPages THEN 1 ELSE page + 1

\* line 73: the page range(1, max_pages + 1) gives after page
Ag_next_page(page) == page + 1

\* discover_all_agents_mega: one page.  outcome "fail": the request failed
\* and fetch_agents_api returned None; "none": the answer carries no result;
\* in both cases line 78 ends the discovery.  "raise": handling the answer
\* raised, the loop continues with the next page; "page": the parsed agents
\* of the page (none of them: discovery stops).
AgDiscoverPage ==
    /\ ag_pc = "discover"
    /\ \E outcome \in {"fail", "none", "raise", "page"}, agents \in SUBSET AgentIds :
          LET found == IF outcome = "page" THEN ag_agent_ids \cup agents ELSE ag_agent_ids
              stop  == \/ outcome \in {"fail", "none"}
                       \/ outcome = "page" /\ agents = {}
                       \/ Ag_next_page(ag_page) > AgMaxPages
          IN /\ outcome # "page" => agents = {}
             /\ ag_agent_ids' = found
             /\ ag_page' = IF stop THEN ag_page ELSE Ag_next_page(ag_page)
             /\ ag_todo' = IF stop THEN found ELSE ag_todo
             /\ ag_pc' = IF ~stop THEN "discover"
                         ELSE IF found = {} THEN "final" ELSE "collect"
             /\ ag_hist' = [ag_hist EXCEPT !.outcome = outcome]
    /\ UNCHANGED <<ag_run, ag_target_phones, ag_agent_phones, ag_processed_agents,
                   ag_agent_id, ag_left, ag_new_phones_found, ag_final_count, ag_success,
                   ag_agents_csv, ag_mega_agents_csv>>
    /\ UNCHANGED notAg

\* The for loop of mega_agent_scrape takes the next agent id (lines 194-200):
\* an id already processed is skipped; otherwise scrape_agent_and_sub_agents
\* fetches the main agent and the sub-agents.  n is the number of records
\* the two answers hold; it is 0 when a fetch failed or anything raised.
AgFetchAgent ==
    /\ ag_pc = "collect"
    /\ \E agent_id \in ag_todo, n \in 0..MaxRecords :
          LET skip == agent_id \in ag_processed_agents
              rest == ag_todo \ {agent_id}
          IN /\ skip => n = 0
             /\ ag_todo' = rest
             /\ ag_agent_id' = IF skip THEN NoAgentId ELSE agent_id
             /\ ag_left' = n
             /\ ag_pc' = IF ~skip THEN "records"
                         ELSE IF rest = {} THEN "final" ELSE "collect"
             /\ ag_hist' = [ag_hist EXCEPT !.outcome = "",
                                           !.found_new = FALSE,
                                           !.all_new = @ /\ n > 0,
                                           !.ended = IF skip THEN @ \cup {agent_id} ELSE @,
                                           !.missed = IF skip THEN @ \cup {agent_id} ELSE @]
    /\ UNCHANGED <<ag_run, ag_target_phones, ag_agent_phones, ag_processed_agents, ag_page,
                   ag_agent_ids, ag_new_phones_found, ag_final_count, ag_success,
                   ag_agents_csv, ag_mega_agents_csv>>
    /\ UNCHANGED notAg

\* One record of the answers: parse_agents_api_response keeps or drops it,
\* and the inner loop (lines 202-213) handles a kept one.  ok tells whether
\* a save made here succeeds.
AgRecord ==
    /\ ag_pc = "records"
    /\ ag_left > 0
    /\ \E agent_data \in ApiRecords, ok \in BOOLEAN :
          LET agent == Parser_extract_agent_from_api(agent_data)
              phone == IF agent = NoAgent THEN None
                       ELSE Ag_extract_phone_from_agent(agent, ag_agent_phones)
              added == IF phone = None THEN ag_agent_phones
                       ELSE Ag_accept(ag_agent_phones, phone)
              grew  == Cardinality(added) > Cardinality(ag_agent_phones)
              found == IF grew THEN ag_new_phones_found + 1 ELSE ag_new_phones_found
              save  == grew /\ found % AgSnapshotEvery = 0
          IN /\ ~save => ok
             /\ ag_agent_phones' = added
             /\ ag_new_phones_found' = found
             /\ ag_mega_agents_csv' =
                   IF save THEN Ag_export_mega_agents_csv(added, ag_mega_agents_csv, ok).file
                   ELSE ag_mega_agents_csv
             /\ ag_hist' = [ag_hist EXCEPT !.found_new = @ \/ grew,
                                           !.all_new = @ /\ grew]
    /\ ag_left' = ag_left - 1
    /\ UNCHANGED <<ag_pc, ag_run, ag_target_phones, ag_processed_agents, ag_page,
                   ag_agent_ids, ag_todo, ag_agent_id, ag_final_count, ag_success,
                   ag_agents_csv>>
    /\ UNCHANGED notAg

\* A target test that lets the loop go on at exactly the target.
Ag_target_reached_late(agent_phones, target_phones) ==
    Cardinality(agent_phones) > target_phones

\* line 223: if len(self.agent_phones) >= self.target_phones
Ag_target_reached(agent_phones, target_phones) ==
    Cardinality(agent_phones) >= target_phones

\* The end of the iteration (lines 215-227): the agent is marked processed
\* and the loop ends when the target is met or no agent is left.
AgEndIteration ==
    /\ ag_pc = "records"
    /\ ag_left = 0
    /\ ag_processed_agents' =
          Ag_mark_processed(ag_processed_agents, ag_agent_id, ag_hist.found_new)
    /\ ag_pc' = IF Ag_target_reached(ag_agent_phones, ag_target_phones) \/ ag_todo = {}
                THEN "final" ELSE "collect"
    /\ ag_agent_id' = NoAgentId
    /\ ag_hist' = [ag_hist EXCEPT !.ended = @ \cup {ag_agent_id},
                                  !.missed = IF ag_hist.found_new THEN @
                                             ELSE @ \cup {ag_agent_id}]
    /\ UNCHANGED <<ag_run, ag_target_phones, ag_agent_phones, ag_page, ag_agent_ids,
                   ag_todo, ag_left, ag_new_phones_found, ag_final_count, ag_success,
                   ag_agents_csv, ag_mega_agents_csv>>
    /\ UNCHANGED notAg

\* Lines 233-241 and main(): the final export, the count it returns and the
\* success that is reported from it.
AgFinalExport ==
    /\ ag_pc = "final"
    /\ \E ok \in BOOLEAN :
          LET out == Ag_export_mega_agents_csv(ag_agent_phones, ag_mega_agents_csv, ok)
          IN /\ ag_mega_agents_csv' = out.file
             /\ ag_final_count' = out.count
             /\ ag_success' = IF out.count >= ag_target_phones THEN "YES" ELSE "PARTIAL"
             /\ ag_hist' = [ag_hist EXCEPT !.export_ok = ok, !.outcome = ""]
    /\ ag_pc' = "done"
    /\ UNCHANGED <<ag_run, ag_target_phones, ag_agent_phones, ag_processed_agents, ag_page,
                   ag_agent_ids, ag_todo, ag_agent_id, ag_left, ag_new_phones_found,
                   ag_agents_csv>>
    /\ UNCHANGED notAg

\* The script is started again: a new MegaAgentScraper object, the files as
\* the previous run left them.
AgNewRun ==
    /\ ag_pc = "done"
    /\ ag_run = "A"
    /\ ag_run' = "B"
    /\ ag_pc' = "start"
    /\ ag_agent_phones' = {}
    /\ ag_processed_agents' = {}
    /\ ag_page' = 1
    /\ ag_agent_ids' = {}
    /\ ag_todo' = {}
    /\ ag_agent_id' = NoAgentId
    /\ ag_left' = 0
    /\ ag_new_phones_found' = 0
    /\ ag_final_count' = -1
    /\ ag_success' = ""
    /\ ag_hist' = [NoHist EXCEPT !.prev_saved = ag_agent_phones,
                                 !.prev_saved_ok = ag_hist.export_ok]
    /\ UNCHANGED <<ag_target_phones, ag_agents_csv, ag_mega_agents_csv>>
    /\ UNCHANGED notAg

\* The user interrupts the script while the loop over agent_ids runs:
\* KeyboardInterrupt is raised at the statement being executed.  It is not an
\* Exception, so the handler of lines 229-231 does not catch it; it leaves
\* mega_agent_scrape and main (lines 243-251), which has no handler, and the
\* process ends.
AgInterrupt ==
    /\ ag_pc \in {"collect", "records"}
    /\ ag_pc' = "interrupted"
    /\ UNCHANGED <<ag_run, ag_target_phones, ag_agent_phones, ag_processed_agents, ag_page,
                   ag_agent_ids, ag_todo, ag_agent_id, ag_left, ag_new_phones_found,
                   ag_final_count, ag_success, ag_agents_csv, ag_mega_agents_csv, ag_hist>>
    /\ UNCHANGED notAg

(***************************************************************************)
(* TurboOwnerScraper (turbo_owner_scraper.py).                             *)
(***************************************************************************)

\* api_endpoints of get_property_urls_fast
api_endpoints == <<"/statements", "/statements?operation_type_id=1",
                   "/statements?operation_type_id=3">>

\* existing_files of load_existing_phones
existing_files == <<"agents.csv", "owners_direct.csv", "master_phones_only.csv">>

\* What the existing files can hold when a run starts.
InitialExistingFiles ==
    { [f \in Range(existing_files) |-> NoFile],
      [f \in Range(existing_files) |->
          IF f = "agents.csv"
          THEN FileOf(<< <<"+", "9", "9", "5", " ", "5", "5", "5", " ", "1", "2", "3", " ", "4", "5", "6">> >>)
          ELSE NoFile],
      [f \in Range(existing_files) |->
          IF f = "owners_direct.csv"
          THEN FileOf(<< <<"+", "9", "9", "5", "5", "5", "5", "1", "2", "3", "4", "5", "6">> >>)
          ELSE IF f = "master_phones_only.csv"
          THEN FileOf(<< <<"+", "9", "9", "5", " ", "5", "1", "1", " ", "2", "3", "4", " ", "5", "6", "7">>,
                         <<"b", "a", "d">> >>)
          ELSE NoFile] }

\* The rows of one file in load_existing_phones.
RECURSIVE Tu_load_rows(_, _)
Tu_load_rows(owner_phones, rows) ==
    IF rows = <<>> THEN owner_phones
    ELSE LET phone      == strip(Head(rows))
             normalized == Turbo_normalize_phone(phone)
         IN Tu_load_rows(IF phone # <<>> /\ normalized # <<>>
                         THEN owner_phones \cup {normalized}
                         ELSE owner_phones,
                         Tail(rows))

\* TurboOwnerScraper.load_existing_phones: every file of the list that can
\* be opened is read.
RECURSIVE Tu_load_existing_phones(_, _, _)
Tu_load_existing_phones(owner_phones, names, files) ==
    IF names = <<>> THEN owner_phones
    ELSE LET file == files[Head(names)]
         IN Tu_load_existing_phones(
                IF file.exists THEN Tu_load_rows(owner_phones, file.rows) ELSE owner_phones,
                Tail(names), files)

\* What the phone patterns of TurboOwnerScraper.scrape_property_phone can
\* match: the spellings of a subscriber number, and a short number of a
\* tel: link.
TuPageMatches == PageMatches \cup { <<"1", "1", "2">> }

TuResponses == {None} \cup UNION {[1..n -> TuPageMatches] : n \in 0..MaxMatches}

\* TurboOwnerScraper.scrape_property_phone: the first match that normalises
\* to a phone not yet in owner_phones; None otherwise.
RECURSIVE Tu_first_new(_, _)
Tu_first_new(matches, owner_phones) ==
    IF matches = <<>> THEN None
    ELSE LET clean_phone == StripNonDigits(Head(matches))
             normalized  == Turbo_normalize_phone(clean_phone)
         IN IF Len(clean_phone) >= 9 /\ normalized # <<>> /\ normalized \notin owner_phones
            THEN normalized
            ELSE Tu_first_new(Tail(matches), owner_phones)

Tu_scrape_property_phone(response, owner_phones) ==
    IF response = None THEN None ELSE Tu_first_new(response, owner_phones)

\* one cell of export_turbo_excel
Tu_format_row(phone) ==
    LET digits == StripNonDigits(phone) IN
    IF Len(digits) >= 12
    THEN <<"+", "9", "9", "5", " ">> \o SubSeq(digits, 4, 6) \o <<" ">>
         \o SubSeq(digits, 7, 9) \o <<" ">> \o SubSeq(digits, 10, 12)
    ELSE phone

\* TurboOwnerScraper.export_turbo_excel: [file, count]; when anything raises
\* the file stays as it was and 0 is returned.
Tu_export_turbo_excel(owner_phones, file, ok) ==
    IF ok
    THEN LET sorted_phones == sorted(owner_phones)
         IN [file  |-> FileOf([i \in 1..Len(sorted_phones) |-> Tu_format_row(sorted_phones[i])]),
             count |-> Len(sorted_phones)]
    ELSE [file |-> file, count |-> 0]

\* all_urls[:max_urls]
FirstN(seq, n) == IF Len(seq) <= n THEN seq ELSE SubSeq(seq, 1, n)

\* line 112: all_urls.extend(page_urls)
Tu_extend(all_urls, page_urls) == all_urls \o page_urls

InitTu ==
    /\ tu_pc = "start"
    /\ tu_target_phones \in 1..MaxTarget
    /\ tu_owner_phones = {}
    /\ tu_processed_urls = {}
    /\ tu_endpoint = 1
    /\ tu_page = 1
    /\ tu_all_urls = <<>>
    /\ tu_i = 0
    /\ tu_new_phones_found = 0
    /\ tu_final_count = -1
    /\ tu_existing_files \in InitialExistingFiles
    /\ tu_owners_xlsx = NoFile
    /\ tu_fetched = [u \in Urls |-> 0]

\* turbo_scrape, lines 202-209: preload, and return at once when the target
\* is already met.
TuLoadExisting ==
    /\ tu_pc = "start"
    /\ LET loaded == Tu_load_existing_phones(tu_owner_phones, existing_files, tu_existing_files)
           met    == Cardinality(loaded) >= tu_target_phones
       IN /\ tu_owner_phones' = loaded
          /\ tu_pc' = IF met THEN "done" ELSE "urls"
          /\ tu_final_count' = IF met THEN Cardinality(loaded) ELSE tu_final_count
    /\ UNCHANGED <<tu_target_phones, tu_processed_urls, tu_endpoint, tu_page, tu_all_urls,
                   tu_i, tu_new_phones_found, tu_existing_files, tu_owners_xlsx, tu_fetched>>
    /\ UNCHANGED notTu

\* get_property_urls_fast: one page of one endpoint.  outcome "none": no
\* data or an exception, the endpoint is left; "page": the URLs of the page
\* (none: the endpoint is left).  The collection ends when max_urls URLs are
\* listed or the last endpoint is left.
TuFetchListing ==
    /\ tu_pc = "urls"
    /\ \E outcome \in {"none", "page"},
          page_urls \in UNION {[1..n -> Urls] : n \in 0..TuMaxItems} :
          LET all_urls == IF outcome = "page" THEN Tu_extend(tu_all_urls, page_urls)
                          ELSE tu_all_urls
              leave    == outcome = "none" \/ page_urls = <<>>
              full     == ~leave /\ Len(all_urls) >= TuMaxUrlList
              last     == leave \/ tu_page = TuMaxPages
              finished == full \/ (last /\ tu_endpoint = Len(api_endpoints))
          IN /\ outcome = "none" => page_urls = <<>>
             /\ tu_all_urls' = IF full THEN FirstN(all_urls, TuMaxUrlList) ELSE all_urls
             /\ tu_endpoint' = IF ~finished /\ last THEN tu_endpoint + 1 ELSE tu_endpoint
             /\ tu_page' = IF finished THEN tu_page ELSE IF last THEN 1 ELSE tu_page + 1
             /\ tu_pc' = IF ~finished THEN "urls"
                         ELSE IF all_urls = <<>> THEN "final" ELSE "loop"
    /\ UNCHANGED <<tu_target_phones, tu_owner_phones, tu_processed_urls, tu_i,
                   tu_new_phones_found, tu_final_count, tu_existing_files, tu_owners_xlsx,
                   tu_fetched>>
    /\ UNCHANGED notTu

\* One iteration of the for loop of turbo_scrape (lines 219-249).
TuIterate ==
    /\ tu_pc = "loop"
    /\ \E response \in TuResponses, ok \in BOOLEAN :
          LET url    == tu_all_urls[tu_i + 1]
              phone  == Tu_scrape_property_phone(response, tu_owner_phones)
              phones == IF phone = None THEN tu_owner_phones ELSE tu_owner_phones \cup {phone}
              grew   == Cardinality(phones) > Cardinality(tu_owner_phones)
              found  == IF grew THEN tu_new_phones_found + 1 ELSE tu_new_phones_found
              save   == grew /\ found % TuSnapshotEvery = 0
              break  == Cardinality(phones) >= tu_target_phones
          IN /\ ~save => ok
             /\ tu_owner_phones' = phones
             /\ tu_new_phones_found' = found
             /\ tu_owners_xlsx' = IF save THEN Tu_export_turbo_excel(phones, tu_owners_xlsx, ok).file
                                  ELSE tu_owners_xlsx
             /\ tu_i' = tu_i + 1
             /\ tu_fetched' = [tu_fetched EXCEPT ![url] = @ + 1]
             /\ tu_pc' = IF break \/ tu_i + 1 = Len(tu_all_urls) THEN "final" ELSE "loop"
    /\ UNCHANGED <<tu_target_phones, tu_processed_urls, tu_endpoint, tu_page, tu_all_urls,
                   tu_final_count, tu_existing_files>>
    /\ UNCHANGED notTu

\* Lines 251-259: the final export and the count returned.
TuFinalExport ==
    /\ tu_pc = "final"
    /\ \E ok \in BOOLEAN :
          LET out == Tu_export_turbo_excel(tu_owner_phones, tu_owners_xlsx, ok)
          IN /\ tu_owners_xlsx' = out.file
             /\ tu_final_count' = out.count
    /\ tu_pc' = "done"
    /\ UNCHANGED <<tu_target_phones, tu_owner_phones, tu_processed_urls, tu_endpoint,
                   tu_page, tu_all_urls, tu_i, tu_new_phones_found, tu_existing_files,
                   tu_fetched>>
    /\ UNCHANGED notTu

(***************************************************************************)
(* DirectOwnersPhoneScraper (scrape_owners_direct.py).                     *)
(***************************************************************************)

\* Phones extract_phone_from_html can return: 9 digits starting with 5.
DoPhones == Subscribers \cup { <<"5", "9", "9", "1", "2", "3", "4", "5", "6">> }

\* scrape_property_phone: the set of phones of one page; the empty set when
\* the request raised or the page shows none.
DoPagePhones == SUBSET DoPhones

\* DirectOwnersPhoneScraper.export_to_csv: the file is rewritten with
\* "+995" + phone per row, sorted; when open() raises the file stays.
Do_export_to_csv(owner_phones, file, ok) ==
    IF ok
    THEN LET sorted_phones == sorted(owner_phones)
         IN FileOf([i \in 1..Len(sorted_phones) |-> Plus995 \o sorted_phones[i]])
    ELSE file

\* saved: the set the most recent export wrote; export_failed: an export of
\* this run raised.
DoNoHist == [saved |-> {}, export_failed |-> FALSE]

InitDo ==
    /\ do_pc = "start"
    /\ do_min_target \in 1..DoMaxTarget
    /\ do_len = 0
    /\ do_i = 0
    /\ do_owner_phones = {}
    /\ do_owners_count = -1
    /\ do_file = NoFile
    /\ do_hist = DoNoHist

\* scrape_owners, lines 155-162: get_property_urls returns a list; without
\* URLs scrape_owners returns 0.
DoGetUrls ==
    /\ do_pc = "start"
    /\ \E n \in 0..DoMaxUrls :
          /\ do_len' = n
          /\ do_pc' = IF n = 0 THEN "returned" ELSE "loop"
          /\ do_owners_count' = IF n = 0 THEN 0 ELSE do_owners_count
    /\ UNCHANGED <<do_min_target, do_i, do_owner_phones, do_file, do_hist>>
    /\ UNCHANGED notDo

\* One iteration of the for loop of scrape_owners (lines 165-186); the loop
\* ends by the break at its top or when the list is used up, and
\* scrape_owners returns the size of the set.
DoIterate ==
    /\ do_pc = "loop"
    /\ \E property_phones \in DoPagePhones, ok \in BOOLEAN :
          LET break      == Cardinality(do_owner_phones) >= do_min_target
              new_phones == property_phones \ do_owner_phones
              phones     == IF break THEN do_owner_phones ELSE do_owner_phones \cup new_phones
              save       == ~break /\ new_phones # {}
                            /\ Cardinality(phones) % DoSnapshotEvery = 0
              last       == break \/ do_i + 1 = do_len
          IN /\ ~save => ok
             /\ break => property_phones = {}
             /\ do_owner_phones' = phones
             /\ do_file' = IF save THEN Do_export_to_csv(phones, do_file, ok) ELSE do_file
             /\ do_hist' = IF ~save THEN do_hist
                           ELSE IF ok THEN [do_hist EXCEPT !.saved = phones]
                           ELSE [do_hist EXCEPT !.export_failed = TRUE]
             /\ do_i' = IF break THEN do_i ELSE do_i + 1
             /\ do_pc' = IF last THEN "returned" ELSE "loop"
             /\ do_owners_count' = IF last THEN Cardinality(phones) ELSE do_owners_count
    /\ UNCHANGED <<do_min_target, do_len>>
    /\ UNCHANGED notDo

\* main, lines 230-232: the results are exported when any were found.
DoMainExport ==
    /\ do_pc = "returned"
    /\ \E ok \in BOOLEAN :
          LET export == do_owners_count > 0
          IN /\ ~export => ok
             /\ do_file' = IF export THEN Do_export_to_csv(do_owner_phones, do_file, ok)
                           ELSE do_file
             /\ do_hist' = IF ~export THEN do_hist
                           ELSE IF ok THEN [do_hist EXCEPT !.saved = do_owner_phones]
                           ELSE [do_hist EXCEPT !.export_failed = TRUE]
    /\ do_pc' = "done"
    /\ UNCHANGED <<do_min_target, do_len, do_i, do_owner_phones, do_owners_count>>
    /\ UNCHANGED notDo

(***************************************************************************)
(* MyHomeScraper (main.py) with its DataStorage (scraper/data_storage.py): *)
(* run starts agents_thread and owners_thread on the same MyHomeScraper    *)
(* object, joins them and exports.                                         *)
(***************************************************************************)

\* The objects MyHomeScraper.__init__ creates once: self.data_storage,
\* self.fetcher (its requests session) and self.selenium_handler (its driver).
MhObjects == {"data_storage", "session", "driver"}

MhThreads == {"agents_thread", "owners_thread"}

\* property pages, and the phone each shows
MhProperties == {"pr1", "pr2"}

MhPropertyPhone(url) ==
    IF url = "pr1" THEN Plus995 \o <<"5", "5", "5", "1", "2", "3", "4", "5", "6">>
    ELSE Plus995 \o <<"5", "1", "1", "2", "3", "4", "5", "6", "7">>

\* Raw records the agents API answers with in this component.
MhApiRecords == {r \in ApiRecords : r.phone_number \in
                    { <<"5", "5", "5", "1", "2", "3", "4", "5", "6">>,
                      <<"5", "1", "1", "2", "3", "4", "5", "6", "7">>,
                      <<"b", "a", "d">> }}

\* the listings one API page can hold
MhAgentPages == UNION {[1..n -> MhApiRecords] : n \in 0..MhMaxPerPage}

MhSubAgentPages == UNION {[1..n -> MhApiRecords] : n \in 0..1}

MhPropertyPages == UNION {[1..n -> MhProperties] : n \in 0..MhMaxPerPage}

\* SeleniumHandler.get_property_phone_with_selenium reads the page the driver
\* shows at that moment: the phones it can find there.
MhPageShows(page) ==
    IF page \in MhProperties THEN {MhPropertyPhone(page)}
    ELSE IF page \in {"maklers", "agent"}
    THEN {Plus995 \o <<"5", "9", "9", "1", "2", "3", "4", "5", "6">>}
    ELSE {}

\* DataStorage._validate_agent_data on a parsed agent: name, phone and url
\* are all set (the parser gives every agent a name and a url).
Ds_validate_agent_data(data) == data.phone # <<>>

\* DataStorage.add_agent
Ds_add_agent(agents_data, agent_data) ==
    IF agent_data # NoAgent /\ Ds_validate_agent_data(agent_data)
    THEN Append(agents_data, agent_data)
    ELSE agents_data

\* add_agent for each agent of a list, in order
RECURSIVE Ds_add_agents(_, _)
Ds_add_agents(agents_data, agents) ==
    IF agents = <<>> THEN agents_data
    ELSE Ds_add_agents(Ds_add_agent(agents_data, Head(agents)), Tail(agents))

\* DataStorage.add_owner_phone: [owner_phones, owners_data]
Ds_add_owner_phone(owner_phones, owners_data, phone) ==
    IF phone # <<>> /\ phone \notin owner_phones
    THEN [owner_phones |-> owner_phones \cup {phone},
          owners_data  |-> Append(owners_data, [phone |-> phone])]
    ELSE [owner_phones |-> owner_phones, owners_data |-> owners_data]

\* DataStorage._write_csv_phone_only: one row per item of data, in the order
\* of the list.
Ds_write_csv_phone_only(data) ==
    LET with_phone == SelectSeq(data, LAMBDA item : item.phone # <<>>)
    IN FileOf([i \in 1..Len(with_phone) |-> with_phone[i].phone])

\* who has written what
MhWrote(writers, thread, objects) ==
    [o \in MhObjects |-> IF o \in objects THEN writers[o] \cup {thread} ELSE writers[o]]

InitMh ==
    /\ mh_pc = "init"
    /\ mh_use_api \in BOOLEAN
    /\ mh_agents_pc = "idle"
    /\ mh_owners_pc = "idle"
    /\ mh_agents_page = 1
    /\ mh_agents_todo = <<>>
    /\ mh_total_agents_found = 0
    /\ mh_owners_page = 1
    /\ mh_owners_todo = <<>>
    /\ mh_property_url = ""
    /\ mh_total_owners_found = 0
    /\ mh_agents_data = <<>>
    /\ mh_owners_data = <<>>
    /\ mh_owner_phones = {}
    /\ mh_driver_page = "blank"
    /\ mh_agents_csv = NoFile
    /\ mh_owners_csv = NoFile
    /\ mh_writers = [o \in MhObjects |-> {}]

\* run, lines 282-287: both threads are started.
MhStartThreads ==
    /\ mh_pc = "init"
    /\ mh_pc' = "threads"
    /\ mh_agents_pc' = "page"
    /\ mh_owners_pc' = "page"
    /\ UNCHANGED <<mh_use_api, mh_agents_page, mh_agents_todo, mh_total_agents_found,
                   mh_owners_page, mh_owners_todo, mh_property_url, mh_total_owners_found,
                   mh_agents_data, mh_owners_data, mh_owner_phones, mh_driver_page,
                   mh_agents_csv, mh_owners_csv, mh_writers>>
    /\ UNCHANGED notMh

\* scrape_agents, lines 44-61: the agents thread fetches a page of the API.
MhAgentsFetchPage ==
    /\ mh_pc = "threads"
    /\ mh_agents_pc = "page"
    /\ mh_use_api
    /\ \E fetched \in BOOLEAN, page \in MhAgentPages :
          LET agents == IF fetched THEN Parser_parse_agents_api_response(page) ELSE <<>>
          IN /\ ~fetched => page = <<>>
             /\ mh_agents_todo' = agents
             /\ mh_agents_pc' = IF agents = <<>> THEN "done" ELSE "agents"
    /\ mh_writers' = MhWrote(mh_writers, "agents_thread", {"session"})
    /\ UNCHANGED <<mh_pc, mh_use_api, mh_owners_pc, mh_agents_page, mh_total_agents_found,
                   mh_owners_page, mh_owners_todo, mh_property_url, mh_total_owners_found,
                   mh_agents_data, mh_owners_data, mh_owner_phones, mh_driver_page,
                   mh_agents_csv, mh_owners_csv>>
    /\ UNCHANGED notMh

\* scrape_agents, lines 64-88, with _scrape_agent_sub_agents (139-164): the
\* next agent of the page and its sub-agents are added to the storage.
MhAgentsAdd ==
    /\ mh_pc = "threads"
    /\ mh_agents_pc = "agents"
    /\ \E sub_page \in MhSubAgentPages :
          LET agent      == Head(mh_agents_todo)
              sub_agents == Parser_parse_agents_api_response(sub_page)
              total      == mh_total_agents_found + 1 + Len(sub_agents)
              rest       == IF total >= MhTarget THEN <<>> ELSE Tail(mh_agents_todo)
              page       == IF rest = <<>> THEN mh_agents_page + 1 ELSE mh_agents_page
          IN /\ mh_agents_data' = Ds_add_agents(Ds_add_agent(mh_agents_data, agent), sub_agents)
             /\ mh_total_agents_found' = total
             /\ mh_agents_todo' = rest
             /\ mh_agents_page' = page
             /\ mh_agents_pc' = IF rest # <<>> THEN "agents"
                                ELSE IF page <= MhMaxPages /\ total < MhTarget THEN "page"
                                ELSE "done"
    /\ mh_writers' = MhWrote(mh_writers, "agents_thread", {"data_storage", "session"})
    /\ UNCHANGED <<mh_pc, mh_use_api, mh_owners_pc, mh_owners_page, mh_owners_todo,
                   mh_property_url, mh_total_owners_found, mh_owners_data, mh_owner_phones,
                   mh_driver_page, mh_agents_csv, mh_owners_csv>>
    /\ UNCHANGED notMh

\* scrape_agents without the API, lines 92-98: the agents thread loads the
\* listing into the browser (SeleniumHandler.get_page_with_phone).
MhAgentsLegacyGet ==
    /\ mh_pc = "threads"
    /\ mh_agents_pc = "page"
    /\ ~mh_use_api
    /\ \E loaded \in BOOLEAN :
          /\ mh_driver_page' = IF loaded THEN "maklers" ELSE mh_driver_page
          /\ mh_agents_pc' = IF loaded THEN "nav" ELSE "done"
    /\ mh_writers' = MhWrote(mh_writers, "agents_thread", {"driver"})
    /\ UNCHANGED <<mh_pc, mh_use_api, mh_owners_pc, mh_agents_page, mh_agents_todo,
                   mh_total_agents_found, mh_owners_page, mh_owners_todo, mh_property_url,
                   mh_total_owners_found, mh_agents_data, mh_owners_data, mh_owner_phones,
                   mh_agents_csv, mh_owners_csv>>
    /\ UNCHANGED notMh

\* scrape_agents without the API, lines 100-134: after the wait the thread
\* reads driver.page_source, whatever page the driver shows by then, and
\* visits the links found.  _scrape_agent_detail (166-189) calls add_agent with
\* keyword arguments it does not have, so a detail page with an agent raises
\* and nothing is stored; the other links are counted.
MhAgentsLegacyRead ==
    /\ mh_pc = "threads"
    /\ mh_agents_pc = "nav"
    /\ \E links \in 0..MhMaxPerPage, counted \in 0..MhMaxPerPage :
          LET total == mh_total_agents_found + counted
              page  == IF links = 0 THEN mh_agents_page ELSE mh_agents_page + 1
          IN /\ mh_driver_page # "maklers" => links = 0
             /\ counted <= links
             /\ mh_driver_page' = IF links = 0 THEN mh_driver_page ELSE "agent"
             /\ mh_total_agents_found' = total
             /\ mh_agents_page' = page
             /\ mh_agents_pc' = IF links # 0 /\ page <= MhMaxPages /\ total < MhTarget
                                THEN "page" ELSE "done"
    /\ mh_writers' = MhWrote(mh_writers, "agents_thread", {"driver"})
    /\ UNCHANGED <<mh_pc, mh_use_api, mh_owners_pc, mh_agents_todo, mh_owners_page,
                   mh_owners_todo, mh_property_url, mh_total_owners_found, mh_agents_data,
                   mh_owners_data, mh_owner_phones, mh_agents_csv, mh_owners_csv>>
    /\ UNCHANGED notMh

\* scrape_properties, lines 198-215: the owners thread fetches a page of
\* property listings.
MhOwnersFetchListing ==
    /\ mh_pc = "threads"
    /\ mh_owners_pc = "page"
    /\ \E properties \in MhPropertyPages :
          /\ mh_owners_todo' = properties
          /\ mh_owners_pc' = IF properties = <<>> THEN "done" ELSE "props"
    /\ mh_writers' = MhWrote(mh_writers, "owners_thread", {"session"})
    /\ UNCHANGED <<mh_pc, mh_use_api, mh_agents_pc, mh_agents_page, mh_agents_todo,
                   mh_total_agents_found, mh_owners_page, mh_property_url,
                   mh_total_owners_found, mh_agents_data, mh_owners_data, mh_owner_phones,
                   mh_driver_page, mh_agents_csv, mh_owners_csv>>
    /\ UNCHANGED notMh

\* scrape_properties, lines 218-232, and get_property_phone_with_selenium,
\* lines 125-126: the owners thread loads the next property into the browser.
MhOwnersNavigate ==
    /\ mh_pc = "threads"
    /\ mh_owners_pc = "props"
    /\ LET break == mh_total_owners_found >= MhTarget
       IN /\ mh_property_url' = IF break THEN mh_property_url ELSE Head(mh_owners_todo)
          /\ mh_driver_page' = IF break THEN mh_driver_page ELSE Head(mh_owners_todo)
          /\ mh_owners_page' = IF break THEN mh_owners_page + 1 ELSE mh_owners_page
          /\ mh_owners_pc' = IF break THEN "done" ELSE "nav"
          /\ mh_writers' = IF break THEN mh_writers
                           ELSE MhWrote(mh_writers, "owners_thread", {"driver"})
    /\ UNCHANGED <<mh_pc, mh_use_api, mh_agents_pc, mh_agents_page, mh_agents_todo,
                   mh_total_agents_found, mh_owners_todo, mh_total_owners_found,
                   mh_agents_data, mh_owners_data, mh_owner_phones, mh_agents_csv,
                   mh_owners_csv>>
    /\ UNCHANGED notMh

\* get_property_phone_with_selenium, lines 128-197, and scrape_properties,
\* lines 235-255: after the wait the phone is read from the page the driver
\* shows by then; without one the API is asked; a phone is added to the storage.
MhOwnersReadPhone ==
    /\ mh_pc = "threads"
    /\ mh_owners_pc = "nav"
    /\ \E selenium_phone \in MhPageShows(mh_driver_page) \cup {None},
          api_phone \in {MhPropertyPhone(mh_property_url), None} :
          LET phone   == IF selenium_phone # None THEN selenium_phone ELSE api_phone
              storage == IF phone # None
                         THEN Ds_add_owner_phone(mh_owner_phones, mh_owners_data, phone)
                         ELSE [owner_phones |-> mh_owner_phones, owners_data |-> mh_owners_data]
              total   == IF phone # None THEN mh_total_owners_found + 1
                         ELSE mh_total_owners_found
              rest    == Tail(mh_owners_todo)
              page    == IF rest = <<>> THEN mh_owners_page + 1 ELSE mh_owners_page
          IN /\ selenium_phone # None => api_phone = None
             /\ mh_owner_phones' = storage.owner_phones
             /\ mh_owners_data' = storage.owners_data
             /\ mh_total_owners_found' = total
             /\ mh_owners_todo' = rest
             /\ mh_owners_page' = page
             /\ mh_owners_pc' = IF rest # <<>> THEN "props"
                                ELSE IF page <= MhMaxPages /\ total < MhTarget THEN "page"
                                ELSE "done"
             /\ mh_writers' = MhWrote(mh_writers, "owners_thread",
                                      IF phone # None THEN {"data_storage", "session"}
                                      ELSE {"session"})
    /\ UNCHANGED <<mh_pc, mh_use_api, mh_agents_pc, mh_agents_page, mh_agents_todo,
                   mh_total_agents_found, mh_property_url, mh_agents_data, mh_driver_page,
                   mh_agents_csv, mh_owners_csv>>
    /\ UNCHANGED notMh

\* run, lines 289-294, with DataStorage.export_to_csv (50-68): both threads
\* are joined and the lists are written; a file that cannot be opened ends
\* the export.
MhJoinExport ==
    /\ mh_pc = "threads"
    /\ mh_agents_pc = "done"
    /\ mh_owners_pc = "done"
    /\ \E agents_ok \in BOOLEAN, owners_ok \in BOOLEAN :
          /\ mh_agents_data = <<>> => agents_ok
          /\ (mh_owners_data = <<>> \/ ~agents_ok) => owners_ok
          /\ mh_agents_csv' = IF mh_agents_data # <<>> /\ agents_ok
                              THEN Ds_write_csv_phone_only(mh_agents_data) ELSE mh_agents_csv
          /\ mh_owners_csv' = IF mh_owners_data # <<>> /\ agents_ok /\ owners_ok
                              THEN Ds_write_csv_phone_only(mh_owners_data) ELSE mh_owners_csv
    /\ mh_pc' = "exported"
    /\ UNCHANGED <<mh_use_api, mh_agents_pc, mh_owners_pc, mh_agents_page, mh_agents_todo,
                   mh_total_agents_found, mh_owners_page, mh_owners_todo, mh_property_url,
                   mh_total_owners_found, mh_agents_data, mh_owners_data, mh_owner_phones,
                   mh_driver_page, mh_writers>>
    /\ UNCHANGED notMh

(***************************************************************************)
(* mega_agents.csv on disk while MegaAgentScraper rewrites it and           *)
(* mega_monitor.py reads it (run_mega_scraper.py starts both processes).   *)
(***************************************************************************)

\* the phones the run can accept
FwPhones == {Plus995 \o p : p \in DoPhones}

\* mega_monitor.count_unique_phones_in_csv; its normalize_phone (lines 15-29)
\* is the code of MegaAgentScraper.normalize_phone.
Monitor_count_unique_phones_in_csv(file) ==
    IF ~file.exists THEN 0
    ELSE Cardinality({MegaAgent_normalize_phone(strip(file.rows[i])) : i \in DOMAIN file.rows}
                     \ {<<>>})

InitFw ==
    /\ fw_pc = "collect"
    /\ fw_agent_phones = {}
    /\ fw_new_phones_found = 0
    /\ fw_final = FALSE
    /\ fw_file = NoFile
    /\ fw_pending = <<>>
    /\ fw_last_snapshot = {}
    /\ fw_monitor_count = -1

\* mega_agent_scrape, lines 204-213: a new phone is accepted; every
\* AgSnapshotEvery new phones the export is called.
FwAccept ==
    /\ fw_pc = "collect"
    /\ \E phone \in FwPhones \ fw_agent_phones :
          fw_agent_phones' = Ag_accept(fw_agent_phones, phone)
    /\ fw_new_phones_found' = fw_new_phones_found + 1
    /\ fw_pc' = IF fw_new_phones_found' % AgSnapshotEvery = 0 THEN "export" ELSE "collect"
    /\ UNCHANGED <<fw_final, fw_file, fw_pending, fw_last_snapshot, fw_monitor_count>>
    /\ UNCHANGED notFw

\* mega_agent_scrape, line 234: the loop is over and the final export is
\* called.
FwEndLoop ==
    /\ fw_pc = "collect"
    /\ fw_pc' = "export"
    /\ fw_final' = TRUE
    /\ UNCHANGED <<fw_agent_phones, fw_new_phones_found, fw_file, fw_pending,
                   fw_last_snapshot, fw_monitor_count>>
    /\ UNCHANGED notFw

\* export_mega_agents_csv, lines 153-166: open(filename, 'w') empties the
\* file; the rows the writer is given wait in the buffer of csvfile.  When
\* open raises the file stays and the export is over.
FwOpen ==
    /\ fw_pc = "export"
    /\ \E ok \in BOOLEAN :
          /\ fw_file' = IF ok THEN FileOf(<<>>) ELSE fw_file
          /\ fw_pending' = IF ok THEN Ag_export_mega_agents_csv(fw_agent_phones, NoFile,
                                                                 TRUE).file.rows
                           ELSE <<>>
          /\ fw_pc' = IF ok THEN "writing" ELSE IF fw_final THEN "done" ELSE "collect"
    /\ UNCHANGED <<fw_agent_phones, fw_new_phones_found, fw_final, fw_last_snapshot,
                   fw_monitor_count>>
    /\ UNCHANGED notFw

\* export_mega_agents_csv, line 166: the buffer is full and its rows go to
\* the disk.
FwFlush ==
    /\ fw_pc = "writing"
    /\ fw_pending # <<>>
    /\ \E k \in 1..Len(fw_pending) :
          /\ fw_file' = FileOf(fw_file.rows \o SubSeq(fw_pending, 1, k))
          /\ fw_pending' = SubSeq(fw_pending, k + 1, Len(fw_pending))
    /\ UNCHANGED <<fw_pc, fw_agent_phones, fw_new_phones_found, fw_final, fw_last_snapshot,
                   fw_monitor_count>>
    /\ UNCHANGED notFw

\* export_mega_agents_csv, lines 155-169: the with block ends, the file is
\* closed and the rest of the buffer goes to the disk.
FwClose ==
    /\ fw_pc = "writing"
    /\ fw_file' = FileOf(fw_file.rows \o fw_pending)
    /\ fw_pending' = <<>>
    /\ fw_last_snapshot' = Range(fw_file'.rows)
    /\ fw_pc' = IF fw_final THEN "done" ELSE "collect"
    /\ UNCHANGED <<fw_agent_phones, fw_new_phones_found, fw_final, fw_monitor_count>>
    /\ UNCHANGED notFw

\* The scraper process is killed: what is in its buffer is lost.
FwKill ==
    /\ fw_pc \in {"collect", "export", "writing"}
    /\ fw_pc' = "killed"
    /\ fw_pending' = <<>>
    /\ UNCHANGED <<fw_agent_phones, fw_new_phones_found, fw_final, fw_file, fw_last_snapshot,
                   fw_monitor_count>>
    /\ UNCHANGED notFw

\* mega_monitor.monitor_mega_progress: the monitor process counts the phones
\* of the file as it is at that moment.
FwMonitorRead ==
    /\ fw_pc # "off"
    /\ fw_monitor_count' = Monitor_count_unique_phones_in_csv(fw_file)
    /\ UNCHANGED <<fw_pc, fw_agent_phones, fw_new_phones_found, fw_final, fw_file, fw_pending,
                   fw_last_snapshot>>
    /\ UNCHANGED notFw

(***************************************************************************)
(* EnhancedAgentScraper.extract_phone_from_agent_enhanced                  *)
(* (mega_agent_scraper_enhanced.py), applied to the raw API records that   *)
(* scrape_agent_and_sub_agents_enhanced collects.                          *)
(***************************************************************************)

\* phone_fields of extract_phone_from_agent_enhanced, in priority order
En_phone_fields == <<"phone_number", "phone", "mobile", "tel", "telephone">>

\* Raw records: some of the fields phone_number and phone, each empty or one
\* of two numbers, and a contact_info with or without a mobile.
EnValues == {<<>>} \cup Subscribers

EnRecords ==
    [fields       : UNION {[D -> EnValues] : D \in SUBSET {"phone_number", "phone"}},
     contact_info : UNION {[D -> Subscribers] : D \in SUBSET {"mobile"}}]

\* extract_phone_from_agent_enhanced: the loop over the fields of the record
\* (the loop of MegaAgentScraper.extract_phone_from_agent with this list of
\* fields; normalize_phone is the same code and drops what strip drops), then
\* the same loop over contact_info.
En_extract_phone_from_agent_enhanced(agent, agent_phones) ==
    LET top == Ag_extract_from_fields(agent.fields, En_phone_fields, agent_phones)
    IN IF top # None THEN top
       ELSE Ag_extract_from_fields(agent.contact_info, En_phone_fields, agent_phones)

InitEn ==
    /\ en_agent \in EnRecords
    /\ en_agent_phones \in SUBSET {Plus995 \o p : p \in Subscribers}
    /\ en_phone = <<"unset">>

\* mega_agent_scrape_enhanced, line 436: the call for one record.
EnExtract ==
    /\ en_phone = <<"unset">>
    /\ en_phone' = En_extract_phone_from_agent_enhanced(en_agent, en_agent_phones)
    /\ UNCHANGED <<en_agent, en_agent_phones>>
    /\ UNCHANGED notEn

(***************************************************************************)
(* MasterDeduplicator (master_deduplicator.py): main reads the source      *)
(* files in the order of csv_sources and exports the master files.         *)
(***************************************************************************)

\* main, lines 145-153: (filename, source_name)
csv_sources ==
    << <<"agents.csv", "Agents">>, <<"owners.csv", "Owners">>,
       <<"owners_direct.csv", "Owners Direct">>, <<"owners_mega.csv", "Owners Mega">>,
       <<"owners_api_mega.csv", "Owners API Mega">>, <<"agents_fixed.csv", "Agents Fixed">>,
       <<"owners_fixed.csv", "Owners Fixed">> >>

\* What a source file can hold: the collectors' exports, one number in two
\* spellings, a second number, a short entry and a blank row.
DdInitialFiles ==
    { NoFile,
      FileOf(<<>>),
      FileOf(<< <<"+", "9", "9", "5", " ", "5", "5", "5", " ", "1", "2", "3", " ", "4", "5", "6">> >>),
      FileOf(<< <<"5", "5", "5", "1", "2", "3", "4", "5", "6">>,
                <<"+", "9", "9", "5", " ", "5", "1", "1", " ", "2", "3", "4", " ", "5", "6", "7">> >>),
      FileOf(<< <<"5", "1", "1", "2", "3", "4", "5", "6", "7">>, <<" ">>, <<"1", "2">>,
                <<"9", "9", "5", "5", "5", "5", "1", "2", "3", "4", "5", "6">> >>) }

\* A row handler that records the source of every phone it meets.
Dedup_add_row_overwrite(st, row, source_name) ==
    LET phone      == strip(row)
        normalized == Dedup_normalize_phone(phone)
    IN IF phone = <<>> \/ normalized = <<>> THEN st
       ELSE [unique_phones |-> st.unique_phones \cup {normalized},
             phone_sources |-> [q \in DOMAIN st.phone_sources \cup {normalized} |->
                                   IF q = normalized THEN source_name
                                   ELSE st.phone_sources[q]],
             added_count   |-> IF normalized \in st.unique_phones THEN st.added_count
                               ELSE st.added_count + 1]

\* add_phones_from_csv, lines 58-65: one row
Dedup_add_row(st, row, source_name) ==
    LET phone      == strip(row)
        normalized == Dedup_normalize_phone(phone)
    IN IF phone = <<>> \/ normalized = <<>> \/ normalized \in st.unique_phones THEN st
       ELSE [unique_phones |-> st.unique_phones \cup {normalized},
             phone_sources |-> [q \in DOMAIN st.phone_sources \cup {normalized} |->
                                   IF q = normalized THEN source_name
                                   ELSE st.phone_sources[q]],
             added_count   |-> st.added_count + 1]

RECURSIVE Dedup_add_rows(_, _, _)
Dedup_add_rows(st, rows, source_name) ==
    IF rows = <<>> THEN st
    ELSE Dedup_add_rows(Dedup_add_row(st, Head(rows), source_name), Tail(rows), source_name)

\* MasterDeduplicator.add_phones_from_csv: [unique_phones, phone_sources,
\* added_count]; a missing file adds nothing and returns 0.
Dedup_add_phones_from_csv(unique_phones, phone_sources, file, source_name) ==
    LET st == [unique_phones |-> unique_phones, phone_sources |-> phone_sources,
               added_count |-> 0]
    IN IF file.exists THEN Dedup_add_rows(st, file.rows, source_name) ELSE st

\* MasterDeduplicator.format_phone_for_excel
Dedup_format_phone_for_excel(phone) ==
    LET digits == StripNonDigits(phone)
        n      == Len(digits)
    IN IF n >= 12 /\ startswith(digits, <<"9", "9", "5">>)
       THEN Plus995 \o <<" ">> \o SubSeq(digits, 4, 6) \o <<" ">> \o SubSeq(digits, 7, 9)
            \o <<" ">> \o SubSeq(digits, 10, 12)
       ELSE IF n >= 9
       THEN Plus995 \o <<" ">> \o SubSeq(digits, n - 8, n - 6) \o <<" ">>
            \o SubSeq(digits, n - 5, n - 3) \o <<" ">> \o SubSeq(digits, n - 2, n)
       ELSE phone

\* MasterDeduplicator.export_master_csv: rows <<Phone, Source>>
Dedup_export_master_csv(unique_phones, phone_sources, file, ok) ==
    IF ok
    THEN LET sorted_phones == sorted(unique_phones)
         IN FileOf([i \in 1..Len(sorted_phones) |->
                       <<Dedup_format_phone_for_excel(sorted_phones[i]),
                         IF sorted_phones[i] \in DOMAIN phone_sources
                         THEN phone_sources[sorted_phones[i]] ELSE "Unknown">>])
    ELSE file

\* MasterDeduplicator.export_phone_only_csv
Dedup_export_phone_only_csv(unique_phones, file, ok) ==
    IF ok
    THEN LET sorted_phones == sorted(unique_phones)
         IN FileOf([i \in 1..Len(sorted_phones) |->
                       Dedup_format_phone_for_excel(sorted_phones[i])])
    ELSE file

InitDd ==
    /\ dd_pc = "add"
    /\ dd_files \in [1..DdMaxSources -> DdInitialFiles]
    /\ dd_i = 0
    /\ dd_unique_phones = {}
    /\ dd_phone_sources = <<>>
    /\ dd_added = <<>>
    /\ dd_master_unique_csv = NoFile
    /\ dd_master_only_csv = NoFile

\* main, lines 158-164: add_phones_from_csv for the next source
DdAddFile ==
    /\ dd_pc = "add"
    /\ LET i  == dd_i + 1
           st == Dedup_add_phones_from_csv(dd_unique_phones, dd_phone_sources, dd_files[i],
                                           csv_sources[i][2])
       IN /\ dd_i' = i
          /\ dd_unique_phones' = st.unique_phones
          /\ dd_phone_sources' = st.phone_sources
          /\ dd_added' = Append(dd_added, st.added_count)
          /\ dd_pc' = IF i = DdMaxSources THEN "export" ELSE "add"
    /\ UNCHANGED <<dd_files, dd_master_unique_csv, dd_master_only_csv>>
    /\ UNCHANGED notDd

\* main, lines 166-193: with any phone, both master files are exported.
DdExport ==
    /\ dd_pc = "export"
    /\ \E ok1 \in BOOLEAN, ok2 \in BOOLEAN :
          LET any == Cardinality(dd_unique_phones) > 0
          IN /\ ~any => (ok1 /\ ok2)
             /\ dd_master_unique_csv' =
                   IF any THEN Dedup_export_master_csv(dd_unique_phones, dd_phone_sources,
                                                       dd_master_unique_csv, ok1)
                   ELSE dd_master_unique_csv
             /\ dd_master_only_csv' =
                   IF any THEN Dedup_export_phone_only_csv(dd_unique_phones,
                                                           dd_master_only_csv, ok2)
                   ELSE dd_master_only_csv
    /\ dd_pc' = "done"
    /\ UNCHANGED <<dd_files, dd_i, dd_unique_phones, dd_phone_sources, dd_added>>
    /\ UNCHANGED notDd

(***************************************************************************)
(* The specifications: one per component; the variables of the other       *)
(* components stay at their idle values.                                   *)
(***************************************************************************)
NormIdle ==
    /\ raw = <<>>
    /\ raw2 = <<>>
    /\ result = None
    /\ result2 = None
    /\ fn = "none"

MoIdle ==
    /\ mo_pc = "off"
    /\ mo_min_target = 0
    /\ mo_property_urls = {}
    /\ mo_owner_phones = {}
    /\ mo_fed = <<>>
    /\ mo_file = NoFile
    /\ mo_scraped_count = 0
    /\ mo_snapshots = 0

AgIdle ==
    /\ ag_pc = "off"
    /\ ag_run = ""
    /\ ag_target_phones = 0
    /\ ag_agent_phones = {}
    /\ ag_processed_agents = {}
    /\ ag_page = 0
    /\ ag_agent_ids = {}
    /\ ag_todo = {}
    /\ ag_agent_id = NoAgentId
    /\ ag_left = 0
    /\ ag_new_phones_found = 0
    /\ ag_final_count = -1
    /\ ag_success = ""
    /\ ag_agents_csv = NoFile
    /\ ag_mega_agents_csv = NoFile
    /\ ag_hist = NoHist

TuIdle ==
    /\ tu_pc = "off"
    /\ tu_target_phones = 0
    /\ tu_owner_phones = {}
    /\ tu_processed_urls = {}
    /\ tu_endpoint = 0
    /\ tu_page = 0
    /\ tu_all_urls = <<>>
    /\ tu_i = 0
    /\ tu_new_phones_found = 0
    /\ tu_final_count = -1
    /\ tu_existing_files = <<>>
    /\ tu_owners_xlsx = NoFile
    /\ tu_fetched = <<>>

DoIdle ==
    /\ do_pc = "off"
    /\ do_min_target = 0
    /\ do_len = 0
    /\ do_i = 0
    /\ do_owner_phones = {}
    /\ do_owners_count = -1
    /\ do_file = NoFile
    /\ do_hist = DoNoHist

MhIdle ==
    /\ mh_pc = "off"
    /\ mh_use_api = TRUE
    /\ mh_agents_pc = "idle"
    /\ mh_owners_pc = "idle"
    /\ mh_agents_page = 1
    /\ mh_agents_todo = <<>>
    /\ mh_total_agents_found = 0
    /\ mh_owners_page = 1
    /\ mh_owners_todo = <<>>
    /\ mh_property_url = ""
    /\ mh_total_owners_found = 0
    /\ mh_agents_data = <<>>
    /\ mh_owners_data = <<>>
    /\ mh_owner_phones = {}
    /\ mh_driver_page = "blank"
    /\ mh_agents_csv = NoFile
    /\ mh_owners_csv = NoFile
    /\ mh_writers = [o \in MhObjects |-> {}]

FwIdle ==
    /\ fw_pc = "off"
    /\ fw_agent_phones = {}
    /\ fw_new_phones_found = 0
    /\ fw_final = FALSE
    /\ fw_file = NoFile
    /\ fw_pending = <<>>
    /\ fw_last_snapshot = {}
    /\ fw_monitor_count = -1

EnIdle ==
    /\ en_agent = [fields |-> <<>>, contact_info |-> <<>>]
    /\ en_agent_phones = {}
    /\ en_phone = <<"off">>

DdIdle ==
    /\ dd_pc = "off"
    /\ dd_files = <<>>
    /\ dd_i = 0
    /\ dd_unique_phones = {}
    /\ dd_phone_sources = <<>>
    /\ dd_added = <<>>
    /\ dd_master_unique_csv = NoFile
    /\ dd_master_only_csv = NoFile

NextNorm ==
    \/ ApplyMegaAgentNormalize
    \/ ApplyTurboNormalize
    \/ ApplyMonitorNormalize
    \/ ApplyDedupNormalize

InitSpecNorm == InitNorm /\ MoIdle /\ AgIdle /\ TuIdle /\ DoIdle /\ MhIdle /\ FwIdle /\ EnIdle /\ DdIdle

SpecNorm == InitSpecNorm /\ [][NextNorm]_vars

NextMo ==
    \/ MoDiscover
    \/ MoIterate
    \/ MoFinalExport

InitSpecMo == InitMo /\ NormIdle /\ AgIdle /\ TuIdle /\ DoIdle /\ MhIdle /\ FwIdle /\ EnIdle /\ DdIdle

SpecMo == InitSpecMo /\ [][NextMo]_vars

NextAg ==
    \/ AgLoadExisting
    \/ AgDiscoverPage
    \/ AgFetchAgent
    \/ AgRecord
    \/ AgEndIteration
    \/ AgFinalExport

InitSpecAg == InitAg /\ NormIdle /\ MoIdle /\ TuIdle /\ DoIdle /\ MhIdle /\ FwIdle /\ EnIdle /\ DdIdle

\* one run of mega_agent_scrape
SpecAg == InitSpecAg /\ [][NextAg]_vars

\* the script run, and run again in the same directory
NextAgResume ==
    \/ NextAg
    \/ AgNewRun

InitSpecAgResume == InitAg /\ NormIdle /\ MoIdle /\ TuIdle /\ DoIdle /\ MhIdle /\ FwIdle /\ EnIdle /\ DdIdle

SpecAgResume == InitSpecAgResume /\ [][NextAgResume]_vars

\* one run the user may interrupt
NextAgStop ==
    \/ NextAg
    \/ AgInterrupt

InitSpecAgStop == InitAg /\ NormIdle /\ MoIdle /\ TuIdle /\ DoIdle /\ MhIdle /\ FwIdle /\ EnIdle /\ DdIdle

SpecAgStop == InitSpecAgStop /\ [][NextAgStop]_vars

\* one run that keeps executing: Python runs the next statement of
\* mega_agent_scrape whenever there is one
InitSpecAgLive == InitAg /\ NormIdle /\ MoIdle /\ TuIdle /\ DoIdle /\ MhIdle /\ FwIdle /\ EnIdle /\ DdIdle

\* line 202: the inner for loop takes the next record.  In a behaviour of
\* [][NextAg]_vars a step that takes a record is an AgRecord step, and one is
\* possible exactly when AgRecord is.
AgRecordTaken ==
    /\ ag_pc = "records"
    /\ ag_left > 0
    /\ ag_left' = ag_left - 1

SpecAgLive ==
    /\ InitSpecAgLive
    /\ [][NextAg]_vars
    /\ WF_vars(AgLoadExisting)
    /\ WF_vars(AgDiscoverPage)
    /\ WF_vars(AgFetchAgent)
    /\ WF_ag_left(AgRecordTaken)
    /\ WF_vars(AgEndIteration)
    /\ WF_vars(AgFinalExport)

NextTu ==
    \/ TuLoadExisting
    \/ TuFetchListing
    \/ TuIterate
    \/ TuFinalExport

InitSpecTu == InitTu /\ NormIdle /\ MoIdle /\ AgIdle /\ DoIdle /\ MhIdle /\ FwIdle /\ EnIdle /\ DdIdle

SpecTu == InitSpecTu /\ [][NextTu]_vars

NextDo ==
    \/ DoGetUrls
    \/ DoIterate
    \/ DoMainExport

InitSpecDo == InitDo /\ NormIdle /\ MoIdle /\ AgIdle /\ TuIdle /\ MhIdle /\ FwIdle /\ EnIdle /\ DdIdle

SpecDo == InitSpecDo /\ [][NextDo]_vars

NextMh ==
    \/ MhStartThreads
    \/ MhAgentsFetchPage
    \/ MhAgentsAdd
    \/ MhAgentsLegacyGet
    \/ MhAgentsLegacyRead
    \/ MhOwnersFetchListing
    \/ MhOwnersNavigate
    \/ MhOwnersReadPhone
    \/ MhJoinExport

InitSpecMh == InitMh /\ NormIdle /\ MoIdle /\ AgIdle /\ TuIdle /\ DoIdle /\ FwIdle /\ EnIdle /\ DdIdle

\* MyHomeScraper.run: the two threads interleave step by step
SpecMh == InitSpecMh /\ [][NextMh]_vars

NextFw ==
    \/ FwAccept
    \/ FwEndLoop
    \/ FwOpen
    \/ FwFlush
    \/ FwClose
    \/ FwKill
    \/ FwMonitorRead

InitSpecFw == InitFw /\ NormIdle /\ MoIdle /\ AgIdle /\ TuIdle /\ DoIdle /\ MhIdle /\ EnIdle /\ DdIdle

\* the scraper process and the monitor process, step by step
SpecFw == InitSpecFw /\ [][NextFw]_vars

InitSpecEn == InitEn /\ NormIdle /\ MoIdle /\ AgIdle /\ TuIdle /\ DoIdle /\ MhIdle /\ FwIdle /\ DdIdle

\* extract_phone_from_agent_enhanced on every record and every accepted set
SpecEn == InitSpecEn /\ [][EnExtract]_vars

NextPa ==
    \/ ApplyParserIsValid
    \/ ApplyParserClean
    \/ ApplyParserCleanAgain
    \/ ApplyParserExtractAgent
    \/ ApplyParserPropertyPhone

InitSpecPa == InitNorm /\ MoIdle /\ AgIdle /\ TuIdle /\ DoIdle /\ MhIdle /\ FwIdle /\ EnIdle /\ DdIdle

\* MyHomeParser's phone functions on the raw strings
SpecPa == InitSpecPa /\ [][NextPa]_vars

NextDd ==
    \/ DdAddFile
    \/ DdExport

InitSpecDd == InitDd /\ NormIdle /\ MoIdle /\ AgIdle /\ TuIdle /\ DoIdle /\ MhIdle /\ FwIdle /\ EnIdle

\* one run of the merge
SpecDd == InitSpecDd /\ [][NextDd]_vars

(***************************************************************************)
(* Properties.                                                             *)
(***************************************************************************)

\* "+995" followed by 9 decimal digits, the first of them "5"
IsPhoneIdentity(x) ==
    /\ Len(x) = 13
    /\ SubSeq(x, 1, 4) = Plus995
    /\ \A i \in 5..13 : x[i] \in Digits
    /\ x[5] = "5"

\* C1: a collector fed a sequence of raw phones holds exactly one entry per
\* distinct normalised identity among the inputs that normalise: its size is
\* the number of those identities (two spellings of one number are one entry).
\* Stated of MegaOwnerScraper, whose inputs are what scrape_property_phone
\* returned.
C1_DedupByIdentity ==
    Cardinality(mo_owner_phones) =
        Cardinality({Turbo_normalize_phone(mo_fed[i]) : i \in DOMAIN mo_fed} \ {<<>>})

\* C2: normalize returns "no identity" or "+995" followed by 9 digits that
\* start with 5, and nothing else (stated of MegaAgentScraper.normalize_phone).
C2_OnlyCanonicalShape ==
    fn = "MegaAgentScraper" => (result = <<>> \/ IsPhoneIdentity(result))

\* C3: when the digit string has at least 9 digits and neither the 9-digit
\* rule nor the 12-digit rule applies, normalize yields "+995" plus the last
\* 9 digits only if those start with 5 and rejects otherwise
\* (TurboOwnerScraper and mega_monitor).
C3_FallbackChecksLeadingFive ==
    LET digits == StripNonDigits(raw)
        last9  == LastN(digits, 9)
    IN (/\ fn \in {"TurboOwnerScraper", "mega_monitor"}
        /\ Len(digits) >= 9
        /\ ~(Len(digits) = 9 /\ digits[1] = "5")
        /\ ~(Len(digits) = 12 /\ SubSeq(digits, 1, 3) = <<"9", "9", "5">>))
       => result = (IF last9[1] = "5" THEN Plus995 \o last9 ELSE <<>>)

\* C4: a raw string with fewer than 9 digits is rejected: normalize returns
\* "no identity", never the input or a part of it (MasterDeduplicator).
C4_ShortInputRejected ==
    (fn = "MasterDeduplicator" /\ Len(StripNonDigits(raw)) < 9) => result = <<>>

\* C5: MegaAgentScraper.normalize_phone depends only on the digits of its
\* input, and the local form d (9 digits starting with 5) and "995" + d both
\* give "+995" + d.
C5_DependsOnDigitsOnly ==
    LET d  == StripNonDigits(raw)
        d2 == StripNonDigits(raw2)
    IN fn = "MegaAgentScraper" =>
          /\ (d = d2 => result = result2)
          /\ (Len(d) = 9 /\ d[1] = "5" /\ d2 = <<"9", "9", "5">> \o d)
                => (result = Plus995 \o d /\ result2 = Plus995 \o d)

\* C5 witness: "512 345 678" and "+995 512345678" were both normalised to
\* "+995512345678".
C5_Witness ==
    /\ fn = "MegaAgentScraper"
    /\ raw = <<"5", "1", "2", " ", "3", "4", "5", " ", "6", "7", "8">>
    /\ raw2 = <<"+", "9", "9", "5", " ", "5", "1", "2", "3", "4", "5", "6", "7", "8">>
    /\ result = <<"+", "9", "9", "5", "5", "1", "2", "3", "4", "5", "6", "7", "8">>
    /\ result2 = result

\* C6: a collector that starts below its target T and is fed by a source
\* that keeps yielding new valid phones ends with exactly T accepted entries
\* and reports success (stated of MegaAgentScraper; the report is looked at
\* when the final export wrote its file).
C6_ExactlyTarget ==
    (/\ ag_pc = "done"
     /\ ag_hist.below_at_start
     /\ ag_hist.all_new
     /\ Cardinality(ag_agent_phones) >= ag_target_phones)
    => /\ Cardinality(ag_agent_phones) = ag_target_phones
       /\ ag_hist.export_ok => ag_success = "YES"

\* C7: when run A ended with the set S and saved it, run B has every identity
\* of S in its set once its preload is done (stated of MegaAgentScraper).
C7_ResumeKeepsSaved ==
    (ag_run = "B" /\ ag_pc # "start" /\ ag_hist.prev_saved_ok)
    => ag_hist.prev_saved \subseteq ag_agent_phones

\* C8: within one run the page of a property URL is fetched for its phone
\* at most once, also when the URL is listed again on a later page or by a
\* second endpoint (stated of TurboOwnerScraper).
C8_ExtractedAtMostOnce == \A u \in Urls : tu_fetched[u] <= 1

\* C9: every agent whose iteration of the collecting loop has ended is in
\* processed_agents, whatever the iteration brought.
C9_EndedAreProcessed == ag_hist.ended \subseteq ag_processed_agents

\* C9 witness: every agent has been iterated, one of them brought a new
\* phone and another brought none, one identity is accepted, all are marked.
C9_Witness ==
    /\ ag_pc = "final"
    /\ ag_hist.ended = AgentIds
    /\ ag_hist.missed # {}
    /\ ag_hist.missed # AgentIds
    /\ ag_processed_agents = AgentIds
    /\ Cardinality(ag_agent_phones) = 1

\* C10: within a run no step removes a phone from agent_phones.
C10_NeverShrinks ==
    [][ag_run' = ag_run => ag_agent_phones \subseteq ag_agent_phones']_vars

\* C10 witness: a run that preloaded a phone, accepted two more, saved at
\* the second and failed in its final export still holds all three.
C10_Witness ==
    /\ ag_pc = "done"
    /\ ag_new_phones_found = 2
    /\ Cardinality(ag_agent_phones) = 3
    /\ ~ag_hist.export_ok
    /\ ag_mega_agents_csv.exists

\* C11: accepting an identity that is already present changes nothing: the
\* accepted set stays as it was and no snapshot is taken for it (stated of
\* the loop of scrape_owners_mega, where the phone an iteration got is the
\* last entry of mo_fed).
C11_ReacceptIsNoOp ==
    [][(/\ mo_pc = "loop"
        /\ Len(mo_fed') = Len(mo_fed) + 1
        /\ mo_fed'[Len(mo_fed')] \in mo_owner_phones)
       => (/\ mo_owner_phones' = mo_owner_phones
           /\ mo_snapshots' = mo_snapshots)]_vars

\* C12: a run that has ended has made a final export, and mega_agents.csv
\* holds exactly the final set, also when the target was met by the preload.
C12_FinalExportOfFinalSet ==
    ag_pc = "done" =>
        ag_mega_agents_csv = Ag_export_mega_agents_csv(ag_agent_phones, NoFile, TRUE).file

\* C13: the count a run reports is the size of its set, and it reports
\* success exactly when that size is at least the target, also when the
\* final export failed.
C13_ReportsCountAndSuccess ==
    ag_pc = "done" =>
        /\ ag_final_count = Cardinality(ag_agent_phones)
        /\ (ag_success = "YES") <=> (Cardinality(ag_agent_phones) >= ag_target_phones)

\* C14: a failed fetch of a discovery page only skips that page: unless it
\* was the last page, discovery goes on with the next one.
C14_FetchFailureAdvances ==
    ag_hist.outcome = "fail" => (ag_pc = "discover" \/ ag_page = AgMaxPages)

\* C15: whatever the source does, discovery fetches at most max_pages pages,
\* no agent is extracted after its iteration has ended once, and the run
\* reaches the end of mega_agent_scrape.
C15_Terminates ==
    /\ [](ag_page <= AgMaxPages)
    /\ [](ag_pc = "records" => ag_agent_id \notin ag_hist.ended)
    /\ <>(ag_pc = "done")

\* C15 witness: the source never gave an empty page, every page of the range
\* was fetched, every agent was iterated and the run ended.
C15_Witness ==
    /\ ag_pc = "done"
    /\ ag_page = AgMaxPages
    /\ ag_agent_ids = AgentIds
    /\ ag_hist.ended = AgentIds

\* C16: while the loop of scrape_owners runs, fewer than the save interval
\* of the accepted phones are missing from the most recent snapshot (looked
\* at in runs where no export raised).
C16_SnapshotNeverSkipped ==
    (do_pc = "loop" /\ ~do_hist.export_failed)
    => Cardinality(do_owner_phones \ do_hist.saved) < DoSnapshotEvery

\* C17: when a run ends by a user interrupt during the loop over the agents,
\* mega_agents.csv has a row for every phone the run accepted before the
\* interrupt (the phones preloaded from agents.csv aside).
C17_InterruptSavesAccepted ==
    ag_pc = "interrupted"
    => \A phone \in ag_agent_phones \ Ag_load_existing_agent_phones({}, ag_agents_csv) :
           \E i \in 1..Len(ag_mega_agents_csv.rows) :
               ag_mega_agents_csv.rows[i] = Ag_format_row(phone)

\* C18: the rows of agents.csv that DataStorage.export_to_csv writes are in
\* strictly ascending order: sorted, and no phone in two rows.
C18_ExportSortedOnce ==
    mh_pc = "exported"
    => \A i, j \in 1..Len(mh_agents_csv.rows) :
           i < j => StrLess(mh_agents_csv.rows[i], mh_agents_csv.rows[j])

\* C19: at every instant mega_agents.csv holds every row of the last export
\* that completed.
C19_FileHoldsLastSnapshot ==
    \A row \in fw_last_snapshot : \E i \in 1..Len(fw_file.rows) : fw_file.rows[i] = row

\* C20: no object of the scraper is written by both threads.
C20_NoObjectWrittenByBoth ==
    \A o \in MhObjects : Cardinality(mh_writers[o]) <= 1

\* C21: right after the preload of turbo_scrape, before any property page was
\* read, owner_phones holds only what the owner files hold (owners_direct.csv
\* and the deduplication output master_phones_only.csv), nothing that came
\* from agents.csv alone.
C21_PreloadOnlyOwnerSources ==
    tu_pc = "urls"
    => tu_owner_phones \subseteq
          Tu_load_existing_phones({}, <<"owners_direct.csv", "master_phones_only.csv">>,
                                  tu_existing_files)

\* C22: when a record has a non-empty phone field, the phone extracted from
\* it is the normalised value of the first such field in the priority list
\* (or nothing, when that value is no phone or is accepted already), whatever
\* the accepted set holds.
C22_FirstPresentFieldOnly ==
    LET present == {i \in 1..Len(En_phone_fields) :
                       /\ En_phone_fields[i] \in DOMAIN en_agent.fields
                       /\ en_agent.fields[En_phone_fields[i]] # <<>>}
        first   == CHOOSE i \in present : \A j \in present : i <= j
    IN (en_phone \notin {<<"unset">>, <<"off">>} /\ present # {})
       => en_phone \in {None,
                        MegaAgent_normalize_phone(en_agent.fields[En_phone_fields[first]])}

C24_ValidOnlyMobile ==
    LET digits == StripNonDigits(raw)
        mobile(d) == Len(d) = 9 /\ d[1] = "5"
    IN (fn = "_is_valid_phone" /\ result = <<"True">>)
       => \/ mobile(digits)
          \/ /\ Len(digits) = 12
             /\ SubSeq(digits, 1, 3) = <<"9", "9", "5">>
             /\ mobile(SubSeq(digits, 4, 12))

\* C25: for strings _is_valid_phone accepts, _clean_phone gives +995 and the
\* 9 subscriber digits, two spellings of one number (with or without 995) clean
\* to the same string, and cleaning the cleaned string changes nothing.
C25_CleanCanonicalIdempotent ==
    LET subscriber(r) == LastN(StripNonDigits(r), 9)
    IN /\ (fn = "_clean_phone" /\ Parser_is_valid_phone(raw))
          => result = Plus995 \o subscriber(raw)
       /\ (fn = "_clean_phone" /\ Parser_is_valid_phone(raw) /\ Parser_is_valid_phone(raw2)
             /\ subscriber(raw) = subscriber(raw2))
          => result = result2
       /\ (fn = "_clean_phone twice" /\ Parser_is_valid_phone(raw))
          => /\ result = Plus995 \o subscriber(raw)
             /\ result = Parser_clean_phone(raw)

\* C25 witness: a number spelled with and without the country code has been
\* cleaned twice.
C25_Witness ==
    /\ fn = "_clean_phone twice"
    /\ Parser_is_valid_phone(raw)
    /\ Parser_is_valid_phone(raw2)
    /\ Len(StripNonDigits(raw)) = 9
    /\ Len(StripNonDigits(raw2)) = 12
    /\ result = result2

\* C29: an API parser returns a phone only when the phone as received passes
\* _is_valid_phone.
C29_ApiValidatesRaw ==
    (fn \in {"_extract_agent_from_api", "parse_property_phone_api_response"} /\ result # None)
    => Parser_is_valid_phone(raw)

C26_WitnessPreload ==
    /\ ag_pc = "done"
    /\ ag_agent_ids = {}
    /\ ag_hist.outcome = ""
    /\ Cardinality(ag_agent_phones) >= ag_target_phones

\* C27: discovery is over before collecting starts: while the agents thread of
\* MyHomeScraper is about to fetch a listing page, no agent has been stored yet.
C27_DiscoveryBeforeCollecting ==
    (mh_pc = "threads" /\ mh_agents_pc = "page") => mh_agents_data = <<>>

\* C30: total_owners_found is the number of distinct owner phones the storage
\* holds.
C30_CounterIsDistinctPhones ==
    mh_total_owners_found = Cardinality(mh_owner_phones)

\* C28: when owners_mega.csv holds the export of the final set, reading the
\* file with add_phones_from_csv loses no member: it gives as many phones as
\* the set holds.
C28_ExportReloadIsIdentity ==
    (mo_pc = "done" /\ mo_file = Mo_export_to_csv(mo_owner_phones, NoFile, TRUE))
    => Cardinality(Dedup_add_phones_from_csv({}, <<>>, mo_file, "Owners Mega").unique_phones)
          = Cardinality(mo_owner_phones)

====
